---------------------------- MODULE Spec2Model ----------------------------
(***************************************************************************)
(* Model of the two day-by-day facility simulators of                      *)
(* continuous_soil_facility_optimizer.py:                                  *)
(*   simulate_for_idle_days      (the throughput probe)                    *)
(*   simulate_facility_schedule  (the full schedule)                       *)
(* A behaviour is one call of one of the two functions.  Every block of    *)
(* the body of the day loop is one action; the blocks are pure operators   *)
(* on the record of the function's local variables.                        *)
(***************************************************************************)
EXTENDS Integers, Sequences, FiniteSets, TLC

VARIABLES sim, params, pc, st

vars == <<sim, params, pc, st>>

(***************************************************************************)
(* Bounds of the model and the sets the inputs are drawn from.             *)
(***************************************************************************)
MaxCells == 3
MaxDays == 14
MaxCellVolume == 3
MaxDailyVolume == 2
MaxCapacity == 3

CellVolumes == 1 .. MaxCellVolume
DailyVolumes == 1 .. MaxDailyVolume
\* capacities below, at and above the daily volume
EquipmentCapacities == 1 .. MaxCapacity
PhaseDurations ==
    { [rip_days |-> 1, treat_days |-> 2, dry_days |-> 1],
      [rip_days |-> 2, treat_days |-> 1, dry_days |-> 2] }

WeekendKeys ==
    { "load_saturday", "load_sunday", "rip_saturday", "rip_sunday",
      "treat_saturday", "treat_sunday", "dry_saturday", "dry_sunday",
      "unload_saturday", "unload_sunday" }

\* no weekend work; weekend work for every phase; weekend work for the
\* treatment phases only; Saturday loading only
WeekendPolicies ==
    { [k \in WeekendKeys |-> FALSE],
      [k \in WeekendKeys |-> TRUE],
      [k \in WeekendKeys |->
          k \in {"rip_saturday", "rip_sunday", "treat_saturday",
                 "treat_sunday", "dry_saturday", "dry_sunday"}],
      [k \in WeekendKeys |-> k \in {"load_saturday", "dry_sunday"}] }

(***************************************************************************)
(* Python values.                                                          *)
(***************************************************************************)
\* None in a pending_transition (a phase name otherwise)
NoTransition == "None"
\* None in active_loading_cell / active_unloading_cell (a cell number otherwise)
NoCell == -1

Min2(a, b) == IF a <= b THEN a ELSE b
Min3(a, b, c) == Min2(a, Min2(b, c))
Max2(a, b) == IF a >= b THEN a ELSE b
MinOfSet(S) == CHOOSE x \in S : \A y \in S : x <= y

\* datetime.weekday() of a date counted in days from a Monday: Monday = 0
Weekday(date) == date % 7

\* datetime(2025, 12, 1), a Monday
ProbeStartDate == 0

(***************************************************************************)
(* Work calendar.                                                          *)
(***************************************************************************)
\* is_work_day without the weekend rules
is_work_dayEveryDay(date, phase_type, weekend_params) == TRUE

is_work_day(date, phase_type, weekend_params) ==
    LET day_of_week == Weekday(date)
        is_saturday == day_of_week = 5
        is_sunday == day_of_week = 6
    IN  IF phase_type = "load"
        THEN ~(is_saturday /\ ~weekend_params["load_saturday"])
             /\ ~(is_sunday /\ ~weekend_params["load_sunday"])
        ELSE IF phase_type = "unload"
        THEN ~(is_saturday /\ ~weekend_params["unload_saturday"])
             /\ ~(is_sunday /\ ~weekend_params["unload_sunday"])
        ELSE IF phase_type = "rip"
        THEN ~(is_saturday /\ ~weekend_params["rip_saturday"])
             /\ ~(is_sunday /\ ~weekend_params["rip_sunday"])
        ELSE IF phase_type = "treat"
        THEN ~(is_saturday /\ ~weekend_params["treat_saturday"])
             /\ ~(is_sunday /\ ~weekend_params["treat_sunday"])
        ELSE IF phase_type = "dry"
        THEN ~(is_saturday /\ ~weekend_params["dry_saturday"])
             /\ ~(is_sunday /\ ~weekend_params["dry_sunday"])
        ELSE TRUE

\* f'{phase_name.lower()}_saturday' and f'{phase_name.lower()}_sunday'
SaturdayKey(phase_name) ==
    CASE phase_name \in {"load", "Load", "LOAD"} -> "load_saturday"
      [] phase_name \in {"rip", "Rip", "RIP"} -> "rip_saturday"
      [] phase_name \in {"treat", "Treat", "TREAT"} -> "treat_saturday"
      [] phase_name \in {"dry", "Dry", "DRY"} -> "dry_saturday"
      [] phase_name \in {"unload", "Unload", "UNLOAD"} -> "unload_saturday"
      [] OTHER -> "_saturday"

\* SundayKey reading the Saturday flag
SundayKeyFromSaturday(phase_name) == SaturdayKey(phase_name)

SundayKey(phase_name) ==
    CASE phase_name \in {"load", "Load", "LOAD"} -> "load_sunday"
      [] phase_name \in {"rip", "Rip", "RIP"} -> "rip_sunday"
      [] phase_name \in {"treat", "Treat", "TREAT"} -> "treat_sunday"
      [] phase_name \in {"dry", "Dry", "DRY"} -> "dry_sunday"
      [] phase_name \in {"unload", "Unload", "UNLOAD"} -> "unload_sunday"
      [] OTHER -> "_sunday"

\* dict.get(key, False)
DictGet(d, key) == IF key \in DOMAIN d THEN d[key] ELSE FALSE

is_valid_work_day(date, phase_name, weekend_params) ==
    LET day_of_week == Weekday(date)
    IN  IF day_of_week < 5 THEN TRUE
        ELSE IF day_of_week = 5
        THEN DictGet(weekend_params, SaturdayKey(phase_name))
        ELSE IF day_of_week = 6
        THEN DictGet(weekend_params, SundayKey(phase_name))
        ELSE FALSE

(***************************************************************************)
(* Cells.                                                                  *)
(***************************************************************************)
CellState(cell_num) ==
    [ cell_num |-> cell_num,
      phase |-> "Empty",
      soil_volume |-> 0,
      phase_workdays_completed |-> 0,
      pending_transition |-> NoTransition,
      flip_num |-> 0 ]

\* cells = [CellState(i) for i in range(num_cells)]
ProbeCellNums(num_cells) == 0 .. (num_cells - 1)
\* cells = {i: CellState(i) for i in range(1, num_cells + 1)}
ScheduleCellNums(num_cells) == 1 .. num_cells

\* FirstReadyCell without the sort: the lowest-numbered ready cell
FirstReadyCellUnsorted(cells, ready) == MinOfSet(ready)

\* ready_cells.sort(key=lambda x: x[1].flip_num); ready_cells[0][0]:
\* the sort is stable and the list is built in cell order
FirstReadyCell(cells, ready) ==
    CHOOSE i \in ready :
        \A j \in ready :
            \/ cells[i].flip_num < cells[j].flip_num
            \/ cells[i].flip_num = cells[j].flip_num /\ i <= j

(***************************************************************************)
(* simulate_for_idle_days: the blocks of the day loop, on the record s of  *)
(* the function's local variables; p is the record of its arguments.       *)
(***************************************************************************)
ProbeInit(p) ==
    [ cells |-> [i \in ProbeCellNums(p.num_cells) |-> CellState(i)],
      current_date |-> ProbeStartDate,
      active_loading_cell |-> NoCell,
      active_unloading_cell |-> NoCell,
      soil_waiting |-> 0,
      max_waiting |-> 0,
      idle_days |-> 0,
      next_flip_num |-> 1,
      loaded_today |-> FALSE,
      day |-> 0 ]

\* Process pending transitions
ProbeProcessPending(s, p) ==
    LET applied(i) ==
            /\ s.cells[i].pending_transition # NoTransition
        unloaded(i) ==
            /\ applied(i)
            /\ s.cells[i].pending_transition = "Empty"
            /\ s.active_unloading_cell = i
    IN  [s EXCEPT
          !.cells = [i \in DOMAIN s.cells |->
              IF applied(i)
              THEN [s.cells[i] EXCEPT
                      !.phase = s.cells[i].pending_transition,
                      !.pending_transition = NoTransition,
                      !.phase_workdays_completed = 0,
                      !.flip_num = IF unloaded(i) THEN 0 ELSE @]
              ELSE s.cells[i]],
          !.active_loading_cell =
              IF \E i \in DOMAIN s.cells :
                    /\ applied(i)
                    /\ s.cells[i].pending_transition = "Rip"
                    /\ s.active_loading_cell = i
              THEN NoCell ELSE @,
          !.active_unloading_cell =
              IF \E i \in DOMAIN s.cells : unloaded(i)
              THEN NoCell ELSE @]

\* ProbeArrive with soil arriving on every calendar day
ProbeArriveEveryDay(s, p) ==
    [s EXCEPT
      !.soil_waiting = @ + p.daily_volume_cy,
      !.loaded_today = FALSE]

\* Soil arrives on loading work days; loaded_today = False
ProbeArrive(s, p) ==
    [s EXCEPT
      !.soil_waiting =
          IF is_work_day(s.current_date, "load", p.weekend_params)
          THEN @ + p.daily_volume_cy ELSE @,
      !.loaded_today = FALSE]

\* ProbeAssignLoadingCell with the "break" of the search loop left out
ProbeAssignLoadingCellNoBreak(s, p) ==
    LET empty == {i \in DOMAIN s.cells : s.cells[i].phase = "Empty"}
        before(i) == Cardinality({j \in empty : j < i})
    IN  IF s.active_loading_cell = NoCell /\ empty # {}
        THEN [s EXCEPT
               !.active_loading_cell = CHOOSE i \in empty : \A j \in empty : j <= i,
               !.cells = [i \in DOMAIN s.cells |->
                   IF i \in empty
                   THEN [s.cells[i] EXCEPT
                           !.phase = "Loading",
                           !.soil_volume = 0,
                           !.flip_num = s.next_flip_num + before(i)]
                   ELSE s.cells[i]],
               !.next_flip_num = @ + Cardinality(empty)]
        ELSE s

\* ProbeAssignLoadingCell looking at the first cell only
ProbeAssignLoadingCellFirstOnly(s, p) ==
    IF s.active_loading_cell = NoCell /\ s.cells[0].phase = "Empty"
    THEN [s EXCEPT
           !.active_loading_cell = 0,
           !.cells[0].phase = "Loading",
           !.cells[0].soil_volume = 0,
           !.cells[0].flip_num = s.next_flip_num,
           !.next_flip_num = @ + 1]
    ELSE s

\* Find or assign active loading cell
ProbeAssignLoadingCell(s, p) ==
    LET empty == {i \in DOMAIN s.cells : s.cells[i].phase = "Empty"}
    IN  IF s.active_loading_cell = NoCell /\ empty # {}
        THEN LET i == MinOfSet(empty)
             IN  [s EXCEPT
                   !.active_loading_cell = i,
                   !.cells[i].phase = "Loading",
                   !.cells[i].soil_volume = 0,
                   !.cells[i].flip_num = s.next_flip_num,
                   !.next_flip_num = @ + 1]
        ELSE s

\* ProbeLoadCell without the incoming rate in the amount
ProbeLoadCellNoRate(s, p) ==
    IF s.active_loading_cell # NoCell /\ s.soil_waiting > 0
       /\ s.cells[s.active_loading_cell].phase = "Loading"
    THEN LET i == s.active_loading_cell
             space_remaining == p.cell_volume - s.cells[i].soil_volume
             load_amount == Min2(space_remaining, s.soil_waiting)
             volume == IF load_amount > 0
                       THEN s.cells[i].soil_volume + load_amount
                       ELSE s.cells[i].soil_volume
         IN  [s EXCEPT
               !.cells[i].soil_volume = volume,
               !.soil_waiting = IF load_amount > 0 THEN @ - load_amount ELSE @,
               !.loaded_today = IF load_amount > 0 THEN TRUE ELSE @,
               !.cells[i].pending_transition =
                   IF volume >= p.cell_volume THEN "Rip" ELSE @]
    ELSE s

\* Load at incoming rate
ProbeLoadCell(s, p) ==
    IF s.active_loading_cell # NoCell /\ s.soil_waiting > 0
       /\ s.cells[s.active_loading_cell].phase = "Loading"
    THEN LET i == s.active_loading_cell
             daily_load_rate == p.daily_volume_cy
             space_remaining == p.cell_volume - s.cells[i].soil_volume
             load_amount == Min3(space_remaining, daily_load_rate, s.soil_waiting)
             volume == IF load_amount > 0
                       THEN s.cells[i].soil_volume + load_amount
                       ELSE s.cells[i].soil_volume
         IN  [s EXCEPT
               !.cells[i].soil_volume = volume,
               !.soil_waiting = IF load_amount > 0 THEN @ - load_amount ELSE @,
               !.loaded_today = IF load_amount > 0 THEN TRUE ELSE @,
               !.cells[i].pending_transition =
                   IF volume >= p.cell_volume THEN "Rip" ELSE @]
    ELSE s

\* ProbeCountIdle testing the backlog instead of loaded_today
ProbeCountIdleByBacklog(s, p) ==
    IF s.soil_waiting > 0 THEN [s EXCEPT !.idle_days = @ + 1] ELSE s

\* ProbeCountIdle counting the days on which a cell stands Empty
ProbeCountIdleByEmptyCell(s, p) ==
    IF \E i \in DOMAIN s.cells : s.cells[i].phase = "Empty"
    THEN [s EXCEPT !.idle_days = @ + 1] ELSE s

\* Count as idle day if soil arrived but we couldn't load any
ProbeCountIdle(s, p) ==
    IF ~s.loaded_today THEN [s EXCEPT !.idle_days = @ + 1] ELSE s

\* LOADING block
ProbeLoad(s, p) ==
    IF is_work_day(s.current_date, "load", p.weekend_params)
    THEN ProbeCountIdle(ProbeLoadCell(ProbeAssignLoadingCell(s, p), p), p)
    ELSE s

\* Find or assign active unloading cell (lowest flip number ready)
ProbeAssignUnloadingCell(s, p) ==
    LET ready_cells == {i \in DOMAIN s.cells : s.cells[i].phase = "ReadyToUnload"}
    IN  IF s.active_unloading_cell = NoCell /\ ready_cells # {}
        THEN LET i == FirstReadyCell(s.cells, ready_cells)
             IN  [s EXCEPT
                   !.active_unloading_cell = i,
                   !.cells[i].phase = "Unloading"]
        ELSE s

\* ProbeUnloadCell with "if unload_amount > 0" left out
ProbeUnloadCellUnguarded(s, p) ==
    IF s.active_unloading_cell # NoCell
       /\ s.cells[s.active_unloading_cell].phase = "Unloading"
    THEN LET i == s.active_unloading_cell
             daily_unload_rate == p.daily_equipment_capacity - p.daily_volume_cy
             unload_amount == Min2(s.cells[i].soil_volume, daily_unload_rate)
             volume == s.cells[i].soil_volume - unload_amount
         IN  [s EXCEPT
               !.cells[i].soil_volume = volume,
               !.cells[i].pending_transition =
                   IF volume <= 0 THEN "Empty" ELSE @]
    ELSE s

\* Unload at surplus rate
ProbeUnloadCell(s, p) ==
    IF s.active_unloading_cell # NoCell
       /\ s.cells[s.active_unloading_cell].phase = "Unloading"
    THEN LET i == s.active_unloading_cell
             daily_unload_rate == p.daily_equipment_capacity - p.daily_volume_cy
             unload_amount == Min2(s.cells[i].soil_volume, daily_unload_rate)
             volume == IF unload_amount > 0
                       THEN s.cells[i].soil_volume - unload_amount
                       ELSE s.cells[i].soil_volume
         IN  [s EXCEPT
               !.cells[i].soil_volume = volume,
               !.cells[i].pending_transition =
                   IF volume <= 0 THEN "Empty" ELSE @]
    ELSE s

\* ProbeUnload with no soil unloaded on the day a cell is promoted
ProbeUnloadNextDay(s, p) ==
    IF is_work_day(s.current_date, "unload", p.weekend_params)
    THEN IF s.active_unloading_cell = NoCell
         THEN ProbeAssignUnloadingCell(s, p)
         ELSE ProbeUnloadCell(s, p)
    ELSE s

\* UNLOADING block
ProbeUnload(s, p) ==
    IF is_work_day(s.current_date, "unload", p.weekend_params)
    THEN ProbeUnloadCell(ProbeAssignUnloadingCell(s, p), p)
    ELSE s

\* ProbeAdvanceCell counting Monday..Friday only, whatever the weekend policy
ProbeAdvanceCellWeekdaysOnly(cell, date, p) ==
    IF cell.phase = "Rip" /\ Weekday(date) < 5
    THEN [cell EXCEPT
           !.phase_workdays_completed = @ + 1,
           !.pending_transition =
               IF cell.phase_workdays_completed + 1 >= p.phase_params.rip_days
               THEN "Treat" ELSE @]
    ELSE IF cell.phase = "Treat" /\ Weekday(date) < 5
    THEN [cell EXCEPT
           !.phase_workdays_completed = @ + 1,
           !.pending_transition =
               IF cell.phase_workdays_completed + 1 >= p.phase_params.treat_days
               THEN "Dry" ELSE @]
    ELSE IF cell.phase = "Dry" /\ Weekday(date) < 5
    THEN [cell EXCEPT
           !.phase_workdays_completed = @ + 1,
           !.pending_transition =
               IF cell.phase_workdays_completed + 1 >= p.phase_params.dry_days
               THEN "ReadyToUnload" ELSE @]
    ELSE cell

\* Treatment phases (don't use equipment), one cell
ProbeAdvanceCell(cell, date, p) ==
    IF cell.phase = "Rip" /\ is_work_day(date, "rip", p.weekend_params)
    THEN [cell EXCEPT
           !.phase_workdays_completed = @ + 1,
           !.pending_transition =
               IF cell.phase_workdays_completed + 1 >= p.phase_params.rip_days
               THEN "Treat" ELSE @]
    ELSE IF cell.phase = "Treat" /\ is_work_day(date, "treat", p.weekend_params)
    THEN [cell EXCEPT
           !.phase_workdays_completed = @ + 1,
           !.pending_transition =
               IF cell.phase_workdays_completed + 1 >= p.phase_params.treat_days
               THEN "Dry" ELSE @]
    ELSE IF cell.phase = "Dry" /\ is_work_day(date, "dry", p.weekend_params)
    THEN [cell EXCEPT
           !.phase_workdays_completed = @ + 1,
           !.pending_transition =
               IF cell.phase_workdays_completed + 1 >= p.phase_params.dry_days
               THEN "ReadyToUnload" ELSE @]
    ELSE cell

\* max_waiting, the treatment phases, and the end of the loop body
ProbeAdvance(s, p) ==
    [s EXCEPT
      !.max_waiting = Max2(@, s.soil_waiting),
      !.cells = [i \in DOMAIN s.cells |->
                    ProbeAdvanceCell(s.cells[i], s.current_date, p)],
      !.current_date = @ + 1,
      !.day = @ + 1]

\* one iteration of "for day in range(simulation_days)"
ProbeDay(s, p) ==
    ProbeAdvance(ProbeUnload(ProbeLoad(ProbeArrive(ProbeProcessPending(s, p), p), p), p), p)


(***************************************************************************)
(* simulate_facility_schedule: the blocks of the day loop.                 *)
(***************************************************************************)
\* current_date.strftime('%A')
DayNameOf(date) ==
    <<"Monday", "Tuesday", "Wednesday", "Thursday", "Friday", "Saturday",
      "Sunday">>[Weekday(date) + 1]

ScheduleInit(p) ==
    [ cells |-> [i \in ScheduleCellNums(p.num_cells) |-> CellState(i)],
      schedule |-> << >>,
      current_date |-> p.start_date,
      active_loading_cell |-> NoCell,
      active_unloading_cell |-> NoCell,
      soil_waiting |-> 0,
      total_soil_loaded |-> 0,
      total_soil_unloaded |-> 0,
      next_flip_num |-> 1,
      daily_soil_in |-> 0,
      daily_soil_out |-> 0,
      day |-> 0 ]

\* ScheduleProcessPending that does not clear active_loading_cell
ScheduleProcessPendingKeepLoader(s, p) ==
    LET applied(i) == s.cells[i].pending_transition # NoTransition
    IN  [s EXCEPT
          !.cells = [i \in DOMAIN s.cells |->
              IF applied(i)
              THEN [s.cells[i] EXCEPT
                      !.phase = s.cells[i].pending_transition,
                      !.pending_transition = NoTransition,
                      !.phase_workdays_completed = 0]
              ELSE s.cells[i]],
          !.active_unloading_cell =
              IF \E i \in DOMAIN s.cells :
                    /\ applied(i)
                    /\ s.cells[i].pending_transition = "Empty"
                    /\ s.active_unloading_cell = i
              THEN NoCell ELSE @]

\* START OF DAY: Process pending transitions from yesterday
ScheduleProcessPending(s, p) ==
    LET applied(i) == s.cells[i].pending_transition # NoTransition
    IN  [s EXCEPT
          !.cells = [i \in DOMAIN s.cells |->
              IF applied(i)
              THEN [s.cells[i] EXCEPT
                      !.phase = s.cells[i].pending_transition,
                      !.pending_transition = NoTransition,
                      !.phase_workdays_completed = 0]
              ELSE s.cells[i]],
          !.active_loading_cell =
              IF \E i \in DOMAIN s.cells :
                    /\ applied(i)
                    /\ s.cells[i].pending_transition = "Rip"
                    /\ s.active_loading_cell = i
              THEN NoCell ELSE @,
          !.active_unloading_cell =
              IF \E i \in DOMAIN s.cells :
                    /\ applied(i)
                    /\ s.cells[i].pending_transition = "Empty"
                    /\ s.active_unloading_cell = i
              THEN NoCell ELSE @]

\* ScheduleArrive with soil arriving on every calendar day
ScheduleArriveEveryDay(s, p) ==
    [s EXCEPT
      !.soil_waiting = @ + p.daily_volume_cy,
      !.daily_soil_in = 0,
      !.daily_soil_out = 0]

\* DAILY INCOMING: Add today's incoming soil to waiting pile;
\* daily_soil_in = 0; daily_soil_out = 0
ScheduleArrive(s, p) ==
    [s EXCEPT
      !.soil_waiting =
          IF is_valid_work_day(s.current_date, "load", p.weekend_params)
          THEN @ + p.daily_volume_cy ELSE @,
      !.daily_soil_in = 0,
      !.daily_soil_out = 0]

\* ScheduleAssignLoadingCell without "next_flip_num += 1"
ScheduleAssignLoadingCellSameFlip(s, p) ==
    LET empty == {i \in DOMAIN s.cells : s.cells[i].phase = "Empty"}
    IN  IF s.active_loading_cell = NoCell /\ empty # {}
        THEN LET cell_num == MinOfSet(empty)
             IN  [s EXCEPT
                   !.cells[cell_num].phase = "Loading",
                   !.cells[cell_num].flip_num = s.next_flip_num,
                   !.cells[cell_num].soil_volume = 0,
                   !.active_loading_cell = cell_num]
        ELSE s

\* Find or assign active loading cell (lowest numbered empty cell)
ScheduleAssignLoadingCell(s, p) ==
    LET empty == {i \in DOMAIN s.cells : s.cells[i].phase = "Empty"}
    IN  IF s.active_loading_cell = NoCell /\ empty # {}
        THEN LET cell_num == MinOfSet(empty)
             IN  [s EXCEPT
                   !.cells[cell_num].phase = "Loading",
                   !.cells[cell_num].flip_num = s.next_flip_num,
                   !.next_flip_num = @ + 1,
                   !.cells[cell_num].soil_volume = 0,
                   !.active_loading_cell = cell_num]
        ELSE s

\* ScheduleLoadCell without the incoming rate in the amount
ScheduleLoadCellNoRate(s, p) ==
    IF s.active_loading_cell # NoCell /\ s.soil_waiting > 0
       /\ s.cells[s.active_loading_cell].phase = "Loading"
    THEN LET i == s.active_loading_cell
             space_remaining == p.cell_volume - s.cells[i].soil_volume
             load_amount == Min2(space_remaining, s.soil_waiting)
             volume == IF load_amount > 0
                       THEN s.cells[i].soil_volume + load_amount
                       ELSE s.cells[i].soil_volume
         IN  [s EXCEPT
               !.cells[i].soil_volume = volume,
               !.soil_waiting = IF load_amount > 0 THEN @ - load_amount ELSE @,
               !.daily_soil_in = IF load_amount > 0 THEN load_amount ELSE @,
               !.total_soil_loaded = IF load_amount > 0 THEN @ + load_amount ELSE @,
               !.cells[i].pending_transition =
                   IF volume >= p.cell_volume THEN "Rip" ELSE @]
    ELSE s

\* ScheduleLoadCell staging 'Rip' as soon as soil was loaded
ScheduleLoadCellStageEarly(s, p) ==
    IF s.active_loading_cell # NoCell /\ s.soil_waiting > 0
       /\ s.cells[s.active_loading_cell].phase = "Loading"
    THEN LET i == s.active_loading_cell
             daily_load_rate == p.daily_volume_cy
             space_remaining == p.cell_volume - s.cells[i].soil_volume
             load_amount == Min3(space_remaining, daily_load_rate, s.soil_waiting)
             volume == IF load_amount > 0
                       THEN s.cells[i].soil_volume + load_amount
                       ELSE s.cells[i].soil_volume
         IN  [s EXCEPT
               !.cells[i].soil_volume = volume,
               !.soil_waiting = IF load_amount > 0 THEN @ - load_amount ELSE @,
               !.daily_soil_in = IF load_amount > 0 THEN load_amount ELSE @,
               !.total_soil_loaded = IF load_amount > 0 THEN @ + load_amount ELSE @,
               !.cells[i].pending_transition =
                   IF load_amount > 0 THEN "Rip" ELSE @]
    ELSE s

\* Load at incoming rate
ScheduleLoadCell(s, p) ==
    IF s.active_loading_cell # NoCell /\ s.soil_waiting > 0
       /\ s.cells[s.active_loading_cell].phase = "Loading"
    THEN LET i == s.active_loading_cell
             daily_load_rate == p.daily_volume_cy
             space_remaining == p.cell_volume - s.cells[i].soil_volume
             load_amount == Min3(space_remaining, daily_load_rate, s.soil_waiting)
             volume == IF load_amount > 0
                       THEN s.cells[i].soil_volume + load_amount
                       ELSE s.cells[i].soil_volume
         IN  [s EXCEPT
               !.cells[i].soil_volume = volume,
               !.soil_waiting = IF load_amount > 0 THEN @ - load_amount ELSE @,
               !.daily_soil_in = IF load_amount > 0 THEN load_amount ELSE @,
               !.total_soil_loaded = IF load_amount > 0 THEN @ + load_amount ELSE @,
               !.cells[i].pending_transition =
                   IF volume >= p.cell_volume THEN "Rip" ELSE @]
    ELSE s

\* ScheduleLoad going on with the next Empty cell on the same day when the
\* active loading cell is full and soil is still waiting
ScheduleLoadOverflow(s, p) ==
    IF is_valid_work_day(s.current_date, "load", p.weekend_params)
    THEN LET a == ScheduleLoadCell(ScheduleAssignLoadingCell(s, p), p)
         IN  IF /\ a.active_loading_cell # NoCell
                /\ a.cells[a.active_loading_cell].soil_volume >= p.cell_volume
                /\ a.soil_waiting > 0
             THEN ScheduleLoadCell(ScheduleAssignLoadingCell(
                      [a EXCEPT !.active_loading_cell = NoCell], p), p)
             ELSE a
    ELSE s

\* LOADING block
ScheduleLoad(s, p) ==
    IF is_valid_work_day(s.current_date, "load", p.weekend_params)
    THEN ScheduleLoadCell(ScheduleAssignLoadingCell(s, p), p)
    ELSE s

\* Find or assign active unloading cell (lowest flip number ready)
ScheduleAssignUnloadingCell(s, p) ==
    LET ready_cells == {i \in DOMAIN s.cells : s.cells[i].phase = "ReadyToUnload"}
    IN  IF s.active_unloading_cell = NoCell /\ ready_cells # {}
        THEN LET i == FirstReadyCell(s.cells, ready_cells)
             IN  [s EXCEPT
                   !.active_unloading_cell = i,
                   !.cells[i].phase = "Unloading"]
        ELSE s

\* ScheduleUnloadCell without "total_soil_unloaded += unload_amount"
ScheduleUnloadCellNoTotal(s, p) ==
    IF s.active_unloading_cell # NoCell
       /\ s.cells[s.active_unloading_cell].phase = "Unloading"
    THEN LET i == s.active_unloading_cell
             daily_unload_rate == p.daily_equipment_capacity - p.daily_volume_cy
             unload_amount == Min2(s.cells[i].soil_volume, daily_unload_rate)
             volume == IF unload_amount > 0
                       THEN s.cells[i].soil_volume - unload_amount
                       ELSE s.cells[i].soil_volume
         IN  [s EXCEPT
               !.cells[i].soil_volume = volume,
               !.daily_soil_out = IF unload_amount > 0 THEN unload_amount ELSE @,
               !.cells[i].pending_transition =
                   IF volume <= 0 THEN "Empty" ELSE @,
               !.cells[i].flip_num = IF volume <= 0 THEN 0 ELSE @]
    ELSE s

\* ScheduleUnloadCell making the emptied cell Empty on the same day
ScheduleUnloadCellSameDay(s, p) ==
    IF s.active_unloading_cell # NoCell
       /\ s.cells[s.active_unloading_cell].phase = "Unloading"
    THEN LET i == s.active_unloading_cell
             daily_unload_rate == p.daily_equipment_capacity - p.daily_volume_cy
             unload_amount == Min2(s.cells[i].soil_volume, daily_unload_rate)
             volume == IF unload_amount > 0
                       THEN s.cells[i].soil_volume - unload_amount
                       ELSE s.cells[i].soil_volume
         IN  [s EXCEPT
               !.cells[i].soil_volume = volume,
               !.daily_soil_out = IF unload_amount > 0 THEN unload_amount ELSE @,
               !.total_soil_unloaded =
                   IF unload_amount > 0 THEN @ + unload_amount ELSE @,
               !.cells[i].phase = IF volume <= 0 THEN "Empty" ELSE @,
               !.cells[i].flip_num = IF volume <= 0 THEN 0 ELSE @,
               !.active_unloading_cell = IF volume <= 0 THEN NoCell ELSE @]
    ELSE s

\* Unload at surplus rate
ScheduleUnloadCell(s, p) ==
    IF s.active_unloading_cell # NoCell
       /\ s.cells[s.active_unloading_cell].phase = "Unloading"
    THEN LET i == s.active_unloading_cell
             daily_unload_rate == p.daily_equipment_capacity - p.daily_volume_cy
             unload_amount == Min2(s.cells[i].soil_volume, daily_unload_rate)
             volume == IF unload_amount > 0
                       THEN s.cells[i].soil_volume - unload_amount
                       ELSE s.cells[i].soil_volume
         IN  [s EXCEPT
               !.cells[i].soil_volume = volume,
               !.daily_soil_out = IF unload_amount > 0 THEN unload_amount ELSE @,
               !.total_soil_unloaded =
                   IF unload_amount > 0 THEN @ + unload_amount ELSE @,
               !.cells[i].pending_transition =
                   IF volume <= 0 THEN "Empty" ELSE @,
               !.cells[i].flip_num = IF volume <= 0 THEN 0 ELSE @]
    ELSE s

\* ScheduleUnload unloading on every calendar day
ScheduleUnloadEveryDay(s, p) ==
    ScheduleUnloadCell(ScheduleAssignUnloadingCell(s, p), p)

\* UNLOADING block
ScheduleUnload(s, p) ==
    IF is_valid_work_day(s.current_date, "unload", p.weekend_params)
    THEN ScheduleUnloadCell(ScheduleAssignUnloadingCell(s, p), p)
    ELSE s

\* ScheduleAdvanceCell staging 'Dry' at the end of Rip
ScheduleAdvanceCellSkipTreat(cell, date, p) ==
    IF cell.phase = "Rip" /\ is_valid_work_day(date, "rip", p.weekend_params)
    THEN [cell EXCEPT
           !.phase_workdays_completed = @ + 1,
           !.pending_transition =
               IF cell.phase_workdays_completed + 1 >= p.phase_params.rip_days
               THEN "Dry" ELSE @]
    ELSE IF cell.phase = "Treat" /\ is_valid_work_day(date, "treat", p.weekend_params)
    THEN [cell EXCEPT
           !.phase_workdays_completed = @ + 1,
           !.pending_transition =
               IF cell.phase_workdays_completed + 1 >= p.phase_params.treat_days
               THEN "Dry" ELSE @]
    ELSE IF cell.phase = "Dry" /\ is_valid_work_day(date, "dry", p.weekend_params)
    THEN [cell EXCEPT
           !.phase_workdays_completed = @ + 1,
           !.pending_transition =
               IF cell.phase_workdays_completed + 1 >= p.phase_params.dry_days
               THEN "ReadyToUnload" ELSE @]
    ELSE cell

\* Progress treatment phases, one cell
ScheduleAdvanceCell(cell, date, p) ==
    IF cell.phase = "Rip" /\ is_valid_work_day(date, "rip", p.weekend_params)
    THEN [cell EXCEPT
           !.phase_workdays_completed = @ + 1,
           !.pending_transition =
               IF cell.phase_workdays_completed + 1 >= p.phase_params.rip_days
               THEN "Treat" ELSE @]
    ELSE IF cell.phase = "Treat" /\ is_valid_work_day(date, "treat", p.weekend_params)
    THEN [cell EXCEPT
           !.phase_workdays_completed = @ + 1,
           !.pending_transition =
               IF cell.phase_workdays_completed + 1 >= p.phase_params.treat_days
               THEN "Dry" ELSE @]
    ELSE IF cell.phase = "Dry" /\ is_valid_work_day(date, "dry", p.weekend_params)
    THEN [cell EXCEPT
           !.phase_workdays_completed = @ + 1,
           !.pending_transition =
               IF cell.phase_workdays_completed + 1 >= p.phase_params.dry_days
               THEN "ReadyToUnload" ELSE @]
    ELSE cell

\* Progress treatment phases for ALL cells
ScheduleAdvance(s, p) ==
    [s EXCEPT
      !.cells = [i \in DOMAIN s.cells |->
                    ScheduleAdvanceCell(s.cells[i], s.current_date, p)]]

\* PhaseDisplay labelling by the phase alone, whatever was moved
PhaseDisplayByPhase(s, cell_num) ==
    LET cell == s.cells[cell_num]
    IN  IF cell.phase = "Loading"
        THEN [label |-> "Load", amount |-> s.daily_soil_in]
        ELSE IF cell.phase = "Unloading"
        THEN [label |-> "Unload", amount |-> s.daily_soil_out]
        ELSE IF cell.phase \in {"Rip", "Treat", "Dry"}
        THEN [label |-> cell.phase, amount |-> 0]
        ELSE [label |-> "", amount |-> 0]

\* Format phase display: the label and the amount in it (0 when it has none)
PhaseDisplay(s, cell_num) ==
    LET cell == s.cells[cell_num]
    IN  IF cell.phase = "Loading"
        THEN IF s.active_loading_cell = cell_num /\ s.daily_soil_in > 0
             THEN [label |-> "Load", amount |-> s.daily_soil_in]
             ELSE [label |-> "", amount |-> 0]
        ELSE IF cell.phase = "Unloading"
        THEN IF s.active_unloading_cell = cell_num /\ s.daily_soil_out > 0
             THEN [label |-> "Unload", amount |-> s.daily_soil_out]
             ELSE [label |-> "", amount |-> 0]
        ELSE IF cell.phase \in {"Rip", "Treat", "Dry"}
        THEN [label |-> cell.phase, amount |-> 0]
        ELSE IF cell.phase \in {"ReadyToUnload", "Empty"}
        THEN [label |-> "", amount |-> 0]
        ELSE [label |-> cell.phase, amount |-> 0]

DayRecord(s) ==
    [ Date |-> s.current_date,
      DayName |-> DayNameOf(s.current_date),
      Cell_Phase |-> [cell_num \in DOMAIN s.cells |-> PhaseDisplay(s, cell_num)],
      SoilIn |-> s.daily_soil_in,
      SoilOut |-> s.daily_soil_out,
      SoilWaiting |-> s.soil_waiting,
      CumSoilIn |-> s.total_soil_loaded,
      CumSoilOut |-> s.total_soil_unloaded ]

\* Record cell states for this day, and the end of the loop body
ScheduleRecord(s, p) ==
    [s EXCEPT
      !.schedule = Append(@, DayRecord(s)),
      !.current_date = @ + 1,
      !.day = @ + 1]

\* one iteration of "for day in range(simulation_days)"
ScheduleDay(s, p) ==
    ScheduleRecord(ScheduleAdvance(ScheduleUnload(ScheduleLoad(
        ScheduleArrive(ScheduleProcessPending(s, p), p), p), p), p), p)

(***************************************************************************)
(* The state machine: one call of one simulator.                           *)
(*   sim     which function runs                                           *)
(*   params  its arguments                                                 *)
(*   pc      the block of the loop body that runs next                     *)
(*   st      its local variables                                           *)
(***************************************************************************)
Params ==
    [ num_cells : 1 .. MaxCells,
      cell_volume : CellVolumes,
      daily_volume_cy : DailyVolumes,
      daily_equipment_capacity : EquipmentCapacities,
      phase_params : PhaseDurations,
      weekend_params : WeekendPolicies,
      start_date : 0 .. 6,
      simulation_days : {MaxDays} ]

Init ==
    /\ sim \in {"probe", "schedule"}
    /\ params \in Params
    /\ sim = "probe" => params.start_date = ProbeStartDate
    /\ pc = "transitions"
    /\ st = IF sim = "probe" THEN ProbeInit(params) ELSE ScheduleInit(params)

\* the loop body is entered while day < simulation_days
InLoop == st.day < params.simulation_days

ProbeProcessPendingStep ==
    /\ sim = "probe" /\ pc = "transitions" /\ InLoop
    /\ st' = ProbeProcessPending(st, params)
    /\ pc' = "arrive"
    /\ UNCHANGED <<sim, params>>

ProbeArriveStep ==
    /\ sim = "probe" /\ pc = "arrive"
    /\ st' = ProbeArrive(st, params)
    /\ pc' = "load"
    /\ UNCHANGED <<sim, params>>

ProbeLoadStep ==
    /\ sim = "probe" /\ pc = "load"
    /\ st' = ProbeLoad(st, params)
    /\ pc' = "unload"
    /\ UNCHANGED <<sim, params>>

ProbeUnloadStep ==
    /\ sim = "probe" /\ pc = "unload"
    /\ st' = ProbeUnload(st, params)
    /\ pc' = "advance"
    /\ UNCHANGED <<sim, params>>

ProbeAdvanceStep ==
    /\ sim = "probe" /\ pc = "advance"
    /\ st' = ProbeAdvance(st, params)
    /\ pc' = "transitions"
    /\ UNCHANGED <<sim, params>>

ScheduleProcessPendingStep ==
    /\ sim = "schedule" /\ pc = "transitions" /\ InLoop
    /\ st' = ScheduleProcessPending(st, params)
    /\ pc' = "arrive"
    /\ UNCHANGED <<sim, params>>

ScheduleArriveStep ==
    /\ sim = "schedule" /\ pc = "arrive"
    /\ st' = ScheduleArrive(st, params)
    /\ pc' = "load"
    /\ UNCHANGED <<sim, params>>

ScheduleLoadStep ==
    /\ sim = "schedule" /\ pc = "load"
    /\ st' = ScheduleLoad(st, params)
    /\ pc' = "unload"
    /\ UNCHANGED <<sim, params>>

ScheduleUnloadStep ==
    /\ sim = "schedule" /\ pc = "unload"
    /\ st' = ScheduleUnload(st, params)
    /\ pc' = "advance"
    /\ UNCHANGED <<sim, params>>

ScheduleAdvanceStep ==
    /\ sim = "schedule" /\ pc = "advance"
    /\ st' = ScheduleAdvance(st, params)
    /\ pc' = "record"
    /\ UNCHANGED <<sim, params>>

ScheduleRecordStep ==
    /\ sim = "schedule" /\ pc = "record"
    /\ st' = ScheduleRecord(st, params)
    /\ pc' = "transitions"
    /\ UNCHANGED <<sim, params>>

Next ==
    \/ ProbeProcessPendingStep
    \/ ProbeArriveStep
    \/ ProbeLoadStep
    \/ ProbeUnloadStep
    \/ ProbeAdvanceStep
    \/ ScheduleProcessPendingStep
    \/ ScheduleArriveStep
    \/ ScheduleLoadStep
    \/ ScheduleUnloadStep
    \/ ScheduleAdvanceStep
    \/ ScheduleRecordStep

Spec == Init /\ [][Next]_vars


(***************************************************************************)
(* Vocabulary of the properties.                                           *)
(***************************************************************************)
Cells == DOMAIN st.cells

\* between two iterations of the day loop: the start of a day, and for
\* day > 0 the end of the day before
DayBoundary == pc = "transitions"
EndOfDay == DayBoundary /\ st.day > 0
StartOfDay == DayBoundary /\ InLoop

\* the state at the end of the day that starts in s
DayFrom(s) == IF sim = "probe" THEN ProbeDay(s, params) ELSE ScheduleDay(s, params)
\* the state of the day that starts in s once yesterday's transitions are applied
TransitionsFrom(s) ==
    IF sim = "probe" THEN ProbeProcessPending(s, params)
    ELSE ScheduleProcessPending(s, params)

\* the calendar of the specification: Monday to Friday, and the weekend days
\* the phase's policy permits
WorkDay(date, kind) ==
    \/ Weekday(date) < 5
    \/ Weekday(date) = 5 /\ params.weekend_params[kind \o "_saturday"]
    \/ Weekday(date) = 6 /\ params.weekend_params[kind \o "_sunday"]

\* the cycle of the phases
Successor(phase) ==
    CASE phase = "Empty" -> "Loading"
      [] phase = "Loading" -> "Rip"
      [] phase = "Rip" -> "Treat"
      [] phase = "Treat" -> "Dry"
      [] phase = "Dry" -> "ReadyToUnload"
      [] phase = "ReadyToUnload" -> "Unloading"
      [] phase = "Unloading" -> "Empty"

RECURSIVE SumVolume(_, _)
SumVolume(cells, ids) ==
    IF ids = {} THEN 0
    ELSE LET i == MinOfSet(ids)
         IN  cells[i].soil_volume + SumVolume(cells, ids \ {i})

TotalVolume(s) == SumVolume(s.cells, DOMAIN s.cells)


(***************************************************************************)
(* C1  Mass conservation.  In simulate_facility_schedule the soil loaded   *)
(* so far minus the soil unloaded so far is the soil in the cells: after   *)
(* every block of the loop for the running totals, and at the end of every *)
(* day for CumSoilIn - CumSoilOut of that day's record.                    *)
(***************************************************************************)
MassConservation ==
    sim = "schedule" =>
        /\ st.total_soil_loaded - st.total_soil_unloaded = TotalVolume(st)
        /\ EndOfDay =>
              LET r == st.schedule[Len(st.schedule)]
              IN  r.CumSoilIn - r.CumSoilOut = TotalVolume(st)

\* a day ends with soil unloaded, soil in two cells, and a cell filled twice
MassConservationWitness ==
    /\ sim = "schedule" /\ EndOfDay
    /\ st.total_soil_unloaded > 0
    /\ st.total_soil_loaded > params.num_cells * params.cell_volume
    /\ Cardinality({c \in Cells : st.cells[c].soil_volume > 0}) >= 2

(***************************************************************************)
(* C2  Capacity bound.  In both simulators, after every block of every     *)
(* day, every cell holds at least 0 and at most cell_volume, also when the *)
(* equipment capacity does not exceed the daily volume.                    *)
(***************************************************************************)
CapacityBound ==
    \A c \in Cells :
        /\ 0 <= st.cells[c].soil_volume
        /\ st.cells[c].soil_volume <= params.cell_volume

\* the unload rate is negative and a full cell is unloading
CapacityBoundWitness ==
    /\ params.daily_equipment_capacity < params.daily_volume_cy
    /\ EndOfDay
    /\ \E c \in Cells :
          /\ st.cells[c].phase = "Unloading"
          /\ st.cells[c].soil_volume = params.cell_volume
    /\ \E c \in Cells :
          /\ st.cells[c].phase = "Loading"
          /\ st.cells[c].soil_volume > 0

(***************************************************************************)
(* C3  Idle-day definition.  Over one day of simulate_for_idle_days,       *)
(* idle_days grows by one when the day is a load work day and no cell      *)
(* holds more at the end of the day than at its start, and does not change *)
(* otherwise; on a load work day soil is waiting after the arrival.        *)
(***************************************************************************)
IdleDayDefinition ==
    (sim = "probe" /\ StartOfDay) =>
        LET e == DayFrom(st)
            load_day == WorkDay(st.current_date, "load")
            moved == \E c \in Cells :
                        e.cells[c].soil_volume > st.cells[c].soil_volume
        IN  /\ e.idle_days =
                  st.idle_days + (IF load_day /\ ~moved THEN 1 ELSE 0)
            /\ load_day =>
                  ProbeArrive(TransitionsFrom(st), params).soil_waiting > 0

\* idle days were counted, and today is a load work day that loads soil
\* although soil was left waiting
IdleDayDefinitionWitness ==
    /\ sim = "probe" /\ StartOfDay
    /\ st.idle_days > 0
    /\ st.soil_waiting > 0
    /\ WorkDay(st.current_date, "load")
    /\ DayFrom(st).idle_days = st.idle_days


(***************************************************************************)
(* C4  Single mover.  Over one day of either simulator at most one cell    *)
(* goes from Empty to Loading, at most one from ReadyToUnload to           *)
(* Unloading, at most one cell's fill grows and at most one cell's fill    *)
(* shrinks.                                                                *)
(***************************************************************************)
SingleMover ==
    StartOfDay =>
        LET b == TransitionsFrom(st)
            e == DayFrom(st)
        IN  /\ Cardinality({c \in Cells : /\ b.cells[c].phase = "Empty"
                                          /\ e.cells[c].phase = "Loading"}) <= 1
            /\ Cardinality({c \in Cells : /\ b.cells[c].phase = "ReadyToUnload"
                                          /\ e.cells[c].phase = "Unloading"}) <= 1
            /\ Cardinality({c \in Cells :
                    e.cells[c].soil_volume > st.cells[c].soil_volume}) <= 1
            /\ Cardinality({c \in Cells :
                    e.cells[c].soil_volume < st.cells[c].soil_volume}) <= 1

\* a day on which one cell starts loading and takes soil while another
\* starts unloading and gives soil
SingleMoverWitness ==
    /\ StartOfDay
    /\ LET b == TransitionsFrom(st)
           e == DayFrom(st)
       IN  /\ \E c \in Cells : /\ b.cells[c].phase = "Empty"
                               /\ e.cells[c].phase = "Loading"
                               /\ e.cells[c].soil_volume > st.cells[c].soil_volume
           /\ \E c \in Cells : /\ b.cells[c].phase = "ReadyToUnload"
                               /\ e.cells[c].phase = "Unloading"
                               /\ e.cells[c].soil_volume < st.cells[c].soil_volume

(***************************************************************************)
(* C5  Single active loader and unloader.  In both simulators, after every *)
(* block of every day (so at the end of every day), at most one cell is    *)
(* Loading and at most one is Unloading; active_loading_cell is None       *)
(* exactly when no cell is Loading and names the Loading cell otherwise,   *)
(* and the same for active_unloading_cell and Unloading.                   *)
(***************************************************************************)
SingleActive ==
    LET loading == {c \in Cells : st.cells[c].phase = "Loading"}
        unloading == {c \in Cells : st.cells[c].phase = "Unloading"}
    IN  /\ Cardinality(loading) <= 1
        /\ Cardinality(unloading) <= 1
        /\ (st.active_loading_cell = NoCell) <=> (loading = {})
        /\ st.active_loading_cell # NoCell => loading = {st.active_loading_cell}
        /\ (st.active_unloading_cell = NoCell) <=> (unloading = {})
        /\ st.active_unloading_cell # NoCell => unloading = {st.active_unloading_cell}

\* a day ends with a loading and an unloading cell, both partly filled,
\* after a cell has been loaded a second time
SingleActiveWitness ==
    /\ EndOfDay
    /\ st.next_flip_num > params.num_cells + 1
    /\ st.active_loading_cell # NoCell
    /\ st.active_unloading_cell # NoCell
    /\ st.cells[st.active_loading_cell].soil_volume \in 1 .. (params.cell_volume - 1)
    /\ st.cells[st.active_unloading_cell].soil_volume \in 1 .. (params.cell_volume - 1)

(***************************************************************************)
(* C6  Strict cyclic phase order.  In both simulators every change of a    *)
(* cell's phase goes to the successor of the phase in the cycle Empty,     *)
(* Loading, Rip, Treat, Dry, ReadyToUnload, Unloading, Empty; a staged     *)
(* transition targets the successor of the cell's phase, and once staged   *)
(* it stays as it is until it is applied.                                  *)
(***************************************************************************)
StrictCyclicOrder ==
    [][\A c \in Cells :
        LET a == st.cells[c]
            b == st'.cells[c]
        IN  /\ b.phase # a.phase => b.phase = Successor(a.phase)
            /\ b.pending_transition # NoTransition =>
                  b.pending_transition = Successor(b.phase)
            /\ a.pending_transition # NoTransition =>
                  \/ /\ b.pending_transition = a.pending_transition
                     /\ b.phase = a.phase
                  \/ /\ b.pending_transition = NoTransition
                     /\ b.phase = a.pending_transition]_vars

\* a cell is loading for the second time: it has gone round the cycle
StrictCyclicOrderWitness ==
    /\ EndOfDay
    /\ \E c \in Cells :
          /\ st.cells[c].phase = "Loading"
          /\ st.cells[c].flip_num > params.num_cells


\* the phases a cell leaves after a number of work days, the calendar each
\* of them follows and its configured duration
TreatmentPhases == {"Rip", "Treat", "Dry"}

KindOf(phase) ==
    CASE phase = "Rip" -> "rip" [] phase = "Treat" -> "treat" [] phase = "Dry" -> "dry"

DurationOf(phase) ==
    CASE phase = "Rip" -> params.phase_params.rip_days
      [] phase = "Treat" -> params.phase_params.treat_days
      [] phase = "Dry" -> params.phase_params.dry_days

(***************************************************************************)
(* C7  Staged transitions and next-day eligibility.  In both simulators a  *)
(* cell enters Rip, Treat, Dry, ReadyToUnload or Empty only in the block   *)
(* that applies the staged transitions, which is the first block of a day  *)
(* (it follows the end of the day before and precedes the arrivals), runs  *)
(* on every day whatever its weekday, applies every staged transition and  *)
(* moves no soil; a transition is staged by the loading, unloading or      *)
(* treatment block of the day on which the cell becomes full, becomes      *)
(* empty or completes its work days.  A cell whose fill reaches zero on a  *)
(* day is still Unloading at the end of that day and Empty once the next   *)
(* day's transitions are applied.                                          *)
(***************************************************************************)
StagedTransitions ==
    [][/\ st'.day # st.day => pc' = "transitions"
       /\ pc = "transitions" => pc' = "arrive" /\ st'.soil_waiting = st.soil_waiting
       /\ StartOfDay =>
             \A c \in Cells :
                 LET e == DayFrom(st)
                 IN  (st.cells[c].soil_volume > 0 /\ e.cells[c].soil_volume = 0) =>
                        /\ e.cells[c].phase = "Unloading"
                        /\ TransitionsFrom(e).cells[c].phase = "Empty"
       /\ \A c \in Cells :
             LET a == st.cells[c]
                 b == st'.cells[c]
             IN  /\ (b.phase # a.phase
                       /\ b.phase \in {"Rip", "Treat", "Dry", "ReadyToUnload", "Empty"}) =>
                        pc = "transitions" /\ a.pending_transition = b.phase
                 /\ pc = "transitions" =>
                        /\ b.soil_volume = a.soil_volume
                        /\ a.pending_transition # NoTransition =>
                              /\ b.phase = a.pending_transition
                              /\ b.pending_transition = NoTransition
                 /\ (a.pending_transition = NoTransition
                       /\ b.pending_transition # NoTransition) =>
                        pc \in {"load", "unload", "advance"}
                 /\ (b.phase = "Loading" /\ a.soil_volume < params.cell_volume
                       /\ b.soil_volume = params.cell_volume) =>
                        b.pending_transition = "Rip"
                 /\ (a.soil_volume > 0 /\ b.soil_volume = 0) =>
                        b.phase = "Unloading" /\ b.pending_transition = "Empty"
                 /\ (b.phase \in TreatmentPhases
                       /\ a.phase_workdays_completed < DurationOf(b.phase)
                       /\ b.phase_workdays_completed = DurationOf(b.phase)) =>
                        b.pending_transition = Successor(b.phase)]_vars

\* a Saturday on which no phase works starts with a cell staged to become
\* Empty and a cell staged to enter Rip
StagedTransitionsWitness ==
    /\ StartOfDay
    /\ Weekday(st.current_date) = 5
    /\ \A k \in WeekendKeys : ~params.weekend_params[k]
    /\ \E c \in Cells : st.cells[c].pending_transition = "Empty"
    /\ \E c \in Cells : st.cells[c].pending_transition = "Rip"

(***************************************************************************)
(* C8  Treatment durations in work days.  In both simulators a cell enters *)
(* Rip, Treat or Dry with phase_workdays_completed = 0; the counter grows  *)
(* by one in the treatment block of every day that is a work day of the    *)
(* phase and does not change otherwise; it never exceeds the duration of   *)
(* the phase; the transition to the next phase is staged exactly while the *)
(* counter equals the duration, and the cell leaves the phase in the       *)
(* transitions block that follows.                                         *)
(***************************************************************************)
TreatmentDurations ==
    [][\A c \in Cells :
        LET a == st.cells[c]
            b == st'.cells[c]
        IN  /\ b.phase \in TreatmentPhases =>
                  /\ b.phase_workdays_completed \in 0 .. DurationOf(b.phase)
                  /\ IF b.phase_workdays_completed = DurationOf(b.phase)
                     THEN b.pending_transition = Successor(b.phase)
                     ELSE b.pending_transition = NoTransition
            /\ (b.phase \in TreatmentPhases /\ b.phase # a.phase) =>
                  b.phase_workdays_completed = 0
            /\ (a.phase \in TreatmentPhases /\ b.phase = a.phase) =>
                  b.phase_workdays_completed =
                      a.phase_workdays_completed
                      + (IF pc = "advance" /\ WorkDay(st.current_date, KindOf(a.phase))
                         THEN 1 ELSE 0)
            /\ (a.phase \in TreatmentPhases /\ b.phase # a.phase) =>
                  /\ pc = "transitions"
                  /\ a.phase_workdays_completed = DurationOf(a.phase)
            /\ (a.phase \in TreatmentPhases /\ pc = "transitions"
                  /\ a.phase_workdays_completed = DurationOf(a.phase)) =>
                  b.phase = Successor(a.phase)]_vars

\* a Monday starts with a cell that has spent one of its two rip days and
\* did not rip over the weekend, and a cell that completed its dry days
TreatmentDurationsWitness ==
    /\ StartOfDay
    /\ Weekday(st.current_date) = 0
    /\ ~params.weekend_params["rip_saturday"]
    /\ ~params.weekend_params["rip_sunday"]
    /\ params.phase_params.rip_days = 2
    /\ \E c \in Cells :
          /\ st.cells[c].phase = "Rip"
          /\ st.cells[c].phase_workdays_completed = 1
    /\ \E c \in Cells :
          /\ st.cells[c].phase = "Dry"
          /\ st.cells[c].phase_workdays_completed = 2
          /\ st.cells[c].pending_transition = "ReadyToUnload"

(***************************************************************************)
(* C9  Oldest-filled-first unloading.  In both simulators a cell that goes *)
(* from ReadyToUnload to Unloading has the smallest flip_num of the cells  *)
(* that are ReadyToUnload, and indeed of all the cells that were loaded    *)
(* and have not started unloading: cells start unloading in the order in   *)
(* which they started loading.                                             *)
(***************************************************************************)
OldestFilledFirst ==
    [][\A c \in Cells :
        (st.cells[c].phase = "ReadyToUnload" /\ st'.cells[c].phase = "Unloading") =>
            /\ st.cells[c].flip_num > 0
            /\ \A d \in Cells \ {c} :
                  st.cells[d].phase
                      \in {"Loading", "Rip", "Treat", "Dry", "ReadyToUnload"} =>
                      st.cells[c].flip_num < st.cells[d].flip_num]_vars

\* the unloading block is about to choose between two ready cells of which
\* the lower-numbered one was loaded later
OldestFilledFirstWitness ==
    /\ pc = "unload"
    /\ WorkDay(st.current_date, "unload")
    /\ st.active_unloading_cell = NoCell
    /\ \E c, d \in Cells :
          /\ c < d
          /\ st.cells[c].phase = "ReadyToUnload"
          /\ st.cells[d].phase = "ReadyToUnload"
          /\ st.cells[c].flip_num > st.cells[d].flip_num

(***************************************************************************)
(* C10  Loader selection and sequence numbers.  In both simulators a cell  *)
(* becomes Loading only in the loading block, when no cell is the active   *)
(* loader, and it is the lowest-numbered Empty cell; it gets next_flip_num *)
(* as its flip_num and next_flip_num grows by one.  On a load work day     *)
(* with no active loader and an Empty cell, a cell is promoted.            *)
(* next_flip_num changes in no other way, every flip_num is below it, a    *)
(* flip_num changes only by promotion or by being reset to 0, and the      *)
(* cells that are not Empty have pairwise distinct flip_nums.              *)
(***************************************************************************)
LoaderSelection ==
    [][LET promoted == {c \in Cells : /\ st.cells[c].phase # "Loading"
                                      /\ st'.cells[c].phase = "Loading"}
           empty == {c \in Cells : st.cells[c].phase = "Empty"}
       IN  /\ \A c \in promoted :
                 /\ pc = "load"
                 /\ st.active_loading_cell = NoCell
                 /\ c \in empty
                 /\ \A d \in empty : c <= d
                 /\ st'.cells[c].flip_num = st.next_flip_num
           /\ (pc = "load" /\ WorkDay(st.current_date, "load")
                 /\ st.active_loading_cell = NoCell /\ empty # {}) =>
                 promoted # {}
           /\ st'.next_flip_num = st.next_flip_num + Cardinality(promoted)
           /\ Cardinality(promoted) <= 1
           /\ \A c \in Cells :
                 /\ st'.cells[c].flip_num < st'.next_flip_num
                 /\ st'.cells[c].flip_num # st.cells[c].flip_num =>
                       c \in promoted \/ st'.cells[c].flip_num = 0
           /\ \A c, d \in Cells :
                 (c # d /\ st'.cells[c].phase # "Empty"
                        /\ st'.cells[d].phase # "Empty") =>
                     st'.cells[c].flip_num # st'.cells[d].flip_num]_vars

\* the loading block of a load work day is about to choose between two
\* Empty cells, neither of them the first cell, after every cell was loaded
LoaderSelectionWitness ==
    /\ pc = "load"
    /\ WorkDay(st.current_date, "load")
    /\ st.active_loading_cell = NoCell
    /\ st.next_flip_num > params.num_cells
    /\ Cardinality({c \in Cells : st.cells[c].phase = "Empty"}) >= 2
    /\ \E c \in Cells :
          /\ st.cells[c].phase # "Empty"
          /\ \A d \in Cells : st.cells[d].phase = "Empty" => c < d


(***************************************************************************)
(* C11  Load amount.  In both simulators the fill of a cell grows only in  *)
(* the loading block and only for the active loading cell; on a load work  *)
(* day the volume moved into it is                                         *)
(*     min(cell_volume - fill, daily_volume_cy, backlog)                   *)
(* and the backlog shrinks by that volume; on other days nothing is        *)
(* moved.  The schedule's SoilIn of the day is that volume, so it never    *)
(* exceeds daily_volume_cy or the backlog present before loading, and no   *)
(* cell is filled beyond cell_volume.                                      *)
(***************************************************************************)
LoadAmount ==
    [][LET fill(c) == st.cells[c].soil_volume
           moved(c) == st'.cells[c].soil_volume - fill(c)
           loader == st'.active_loading_cell
           amount == Min3(params.cell_volume - fill(loader),
                          params.daily_volume_cy, st.soil_waiting)
       IN  /\ \A c \in Cells :
                 /\ moved(c) > 0 => pc = "load" /\ c = loader
                 /\ st'.cells[c].soil_volume <= params.cell_volume
           /\ pc = "load" =>
                 /\ \A c \in Cells : c # loader => moved(c) = 0
                 /\ loader # NoCell =>
                       moved(loader) =
                           IF WorkDay(st.current_date, "load") THEN amount ELSE 0
                 /\ st'.soil_waiting =
                       st.soil_waiting
                         - (IF loader # NoCell THEN moved(loader) ELSE 0)
                 /\ sim = "schedule" =>
                       /\ st'.daily_soil_in =
                             IF loader # NoCell THEN moved(loader) ELSE 0
                       /\ st'.daily_soil_in <= params.daily_volume_cy
                       /\ st'.daily_soil_in <= st.soil_waiting]_vars

\* the schedule's loading block has moved a full day's arrival into a cell
\* that still has room, and part of the backlog stays behind
LoadAmountWitness ==
    /\ sim = "schedule"
    /\ pc = "unload"
    /\ st.daily_soil_in = params.daily_volume_cy
    /\ st.soil_waiting > 0
    /\ st.active_loading_cell # NoCell
    /\ st.cells[st.active_loading_cell].soil_volume < params.cell_volume
    /\ st.cells[st.active_loading_cell].soil_volume > st.daily_soil_in


(***************************************************************************)
(* C12  Backlog accounting.  In the schedule the backlog is never          *)
(* negative and always equals daily_volume_cy times the number of load     *)
(* work days whose arrival has been added (those of the days recorded, and *)
(* today's once the arrival block has run) minus the volume loaded so      *)
(* far: it grows by exactly daily_volume_cy on a load work day and by      *)
(* nothing on another day.  Every day's record has                         *)
(*     SoilWaiting = daily_volume_cy * (load work days so far) - CumSoilIn *)
(***************************************************************************)
LoadWorkDaysUpTo(n) ==
    Cardinality({i \in 1 .. n : WorkDay(st.schedule[i].Date, "load")})

BacklogAccounting ==
    sim = "schedule" =>
        /\ st.soil_waiting >= 0
        /\ st.soil_waiting =
              params.daily_volume_cy
                * (LoadWorkDaysUpTo(Len(st.schedule))
                     + (IF pc \notin {"transitions", "arrive"}
                           /\ WorkDay(st.current_date, "load")
                        THEN 1 ELSE 0))
              - st.total_soil_loaded
        /\ \A n \in 1 .. Len(st.schedule) :
              /\ st.schedule[n].SoilWaiting >= 0
              /\ st.schedule[n].SoilWaiting =
                    params.daily_volume_cy * LoadWorkDaysUpTo(n)
                      - st.schedule[n].CumSoilIn

\* a schedule of more than a week with a day off loading on which the
\* backlog stayed what it was, and a positive backlog at the end
BacklogAccountingWitness ==
    /\ sim = "schedule"
    /\ EndOfDay
    /\ Len(st.schedule) > 7
    /\ st.schedule[Len(st.schedule)].SoilWaiting > 0
    /\ st.schedule[Len(st.schedule)].CumSoilIn > 0
    /\ \E n \in 2 .. Len(st.schedule) :
          /\ ~WorkDay(st.schedule[n].Date, "load")
          /\ st.schedule[n].SoilWaiting = st.schedule[n - 1].SoilWaiting
          /\ st.schedule[n].SoilWaiting > 0


(***************************************************************************)
(* The two work calendars as functions: one call of is_work_day or of      *)
(* is_valid_work_day, for any weekend dict of the ten keys main() builds,  *)
(* any of the five phase names the simulators pass and any date.           *)
(*   params  the weekend dict                                              *)
(*   st      the arguments and the value returned                          *)
(***************************************************************************)
PhaseNames == {"load", "rip", "treat", "dry", "unload"}
CalendarDates == 0 .. MaxDays - 1

CalendarInit ==
    /\ sim = "calendar"
    /\ params \in [weekend_params : [WeekendKeys -> BOOLEAN]]
    /\ pc = "call"
    /\ st = [date |-> 0, phase |-> "load", result |-> TRUE]

IsWorkDayCall ==
    /\ sim = "calendar" /\ pc = "call"
    /\ \E date \in CalendarDates, phase_type \in PhaseNames :
          st' = [date |-> date, phase |-> phase_type,
                 result |-> is_work_day(date, phase_type, params.weekend_params)]
    /\ pc' = "is_work_day"
    /\ UNCHANGED <<sim, params>>

IsValidWorkDayCall ==
    /\ sim = "calendar" /\ pc = "call"
    /\ \E date \in CalendarDates, phase_name \in PhaseNames :
          st' = [date |-> date, phase |-> phase_name,
                 result |-> is_valid_work_day(date, phase_name, params.weekend_params)]
    /\ pc' = "is_valid_work_day"
    /\ UNCHANGED <<sim, params>>

CalendarNext == IsWorkDayCall \/ IsValidWorkDayCall

CalendarSpec == CalendarInit /\ [][CalendarNext]_vars

(***************************************************************************)
(* C13  Work calendar.  For each of the five phases and each date, both    *)
(* is_work_day and is_valid_work_day return true on Monday..Friday, the    *)
(* phase's saturday flag on a Saturday and the phase's sunday flag on a    *)
(* Sunday, and the two functions agree.                                    *)
(***************************************************************************)
WorkCalendar ==
    pc \in {"is_work_day", "is_valid_work_day"} =>
        LET flags == params.weekend_params
            expected ==
                CASE Weekday(st.date) = 5 -> flags[st.phase \o "_saturday"]
                  [] Weekday(st.date) = 6 -> flags[st.phase \o "_sunday"]
                  [] OTHER -> TRUE
        IN  /\ st.result = expected
            /\ is_work_day(st.date, st.phase, flags)
                 = is_valid_work_day(st.date, st.phase, flags)

\* is_valid_work_day has allowed drying on a Sunday of the second week
\* under a policy that forbids drying on Saturdays and unloading on Sundays
WorkCalendarWitness ==
    /\ pc = "is_valid_work_day"
    /\ st.date > 6
    /\ Weekday(st.date) = 6
    /\ st.phase = "dry"
    /\ st.result
    /\ ~params.weekend_params["dry_saturday"]
    /\ ~params.weekend_params["unload_sunday"]


(***************************************************************************)
(* The functions of the configuration search:                              *)
(*   calculate_calendar_days_for_workdays, calculate_total_cycle_time,     *)
(*   simulate_for_idle_days as a whole call, find_max_daily_volume.        *)
(* datetime.now() is not an argument of the program: calculate_total_      *)
(* cycle_time reads the wall clock, so the day it returns is a parameter   *)
(* "now" of the operator, chosen by the environment.                       *)
(***************************************************************************)
\* math.ceil(a / b) for a >= 0, b > 0
MathCeilDiv(a, b) == (a + b - 1) \div b

\* the while loop of calculate_calendar_days_for_workdays
RECURSIVE CalendarDaysLoop(_, _, _, _, _, _)
CalendarDaysLoop(target_workdays, saturday_work, sunday_work, workdays, calendar_days, current) ==
    IF workdays < target_workdays
    THEN LET day_of_week == Weekday(current)
             counted == \/ day_of_week < 5
                        \/ day_of_week = 5 /\ saturday_work
                        \/ day_of_week = 6 /\ sunday_work
         IN  CalendarDaysLoop(target_workdays, saturday_work, sunday_work,
                              IF counted THEN workdays + 1 ELSE workdays,
                              calendar_days + 1, current + 1)
    ELSE calendar_days

calculate_calendar_days_for_workdays(target_workdays, start_date, saturday_work, sunday_work) ==
    CalendarDaysLoop(target_workdays, saturday_work, sunday_work, 0, 0, start_date)

calculate_total_cycle_time(cell_volume_cy, daily_incoming_volume, daily_equipment_capacity, phase_params, weekend_params, now) ==
    LET load_workdays == MathCeilDiv(cell_volume_cy, daily_incoming_volume)
        load_calendar_days ==
            calculate_calendar_days_for_workdays(load_workdays, now,
                weekend_params["load_saturday"], weekend_params["load_sunday"])
        rip_calendar_days ==
            calculate_calendar_days_for_workdays(phase_params.rip_days, now,
                weekend_params["rip_saturday"], weekend_params["rip_sunday"])
        treat_calendar_days ==
            calculate_calendar_days_for_workdays(phase_params.treat_days, now,
                weekend_params["treat_saturday"], weekend_params["treat_sunday"])
        dry_calendar_days ==
            calculate_calendar_days_for_workdays(phase_params.dry_days, now,
                weekend_params["dry_saturday"], weekend_params["dry_sunday"])
        unload_workdays == MathCeilDiv(cell_volume_cy, daily_equipment_capacity)
        unload_calendar_days ==
            calculate_calendar_days_for_workdays(unload_workdays, now,
                weekend_params["unload_saturday"], weekend_params["unload_sunday"])
    IN  [ load_calendar_days |-> load_calendar_days,
          load_workdays |-> load_workdays,
          rip_calendar_days |-> rip_calendar_days,
          treat_calendar_days |-> treat_calendar_days,
          dry_calendar_days |-> dry_calendar_days,
          unload_calendar_days |-> unload_calendar_days,
          unload_workdays |-> unload_workdays,
          total_calendar_days |->
              load_calendar_days + rip_calendar_days + treat_calendar_days
                + dry_calendar_days + unload_calendar_days ]

\* "for day in range(simulation_days)" of simulate_for_idle_days: days turns
\* of the loop body from the locals s, as the first half of the turns
\* followed by the rest.  Every turn adds one to the day counter, so the
\* test on it always holds; it has the first half evaluated before the rest
\* is entered, which keeps the evaluation shallow.
RECURSIVE ProbeRun(_, _, _)
ProbeRun(s, p, days) ==
    IF days <= 0 THEN s
    ELSE IF days = 1 THEN ProbeDay(s, p)
    ELSE LET half == ProbeRun(s, p, days \div 2)
         IN  IF half.day = s.day + days \div 2
             THEN ProbeRun(half, p, days - days \div 2)
             ELSE half

\* one call of simulate_for_idle_days; returns (idle_days, max_waiting)
simulate_for_idle_days(num_cells, cell_volume, daily_volume_cy, daily_equipment_capacity, phase_params, weekend_params, simulation_days) ==
    LET p == [ num_cells |-> num_cells,
               cell_volume |-> cell_volume,
               daily_volume_cy |-> daily_volume_cy,
               daily_equipment_capacity |-> daily_equipment_capacity,
               phase_params |-> phase_params,
               weekend_params |-> weekend_params,
               start_date |-> ProbeStartDate,
               simulation_days |-> simulation_days ]
        s == ProbeRun(ProbeInit(p), p, simulation_days)
    IN  [idle_days |-> s.idle_days, max_waiting |-> s.max_waiting]

\* low, high = 50, 1500
SearchLow == 50
SearchHigh == 1500
\* simulation_days=120 of find_max_daily_volume, simulation_days=90 of the search
MaxVolumeHorizon == 120
SearchHorizon == 90

\* FindMaxIteration without "max_found = mid"
FindMaxIterationNoRecord(l, num_cells, cell_volume, daily_equipment_capacity, phase_params, weekend_params, simulation_days) ==
    LET mid == (l.low + l.high) \div 2
        idle_days == simulate_for_idle_days(num_cells, cell_volume, mid,
                         daily_equipment_capacity, phase_params,
                         weekend_params, simulation_days).idle_days
    IN  IF idle_days = 0
        THEN [l EXCEPT !.low = mid + 1]
        ELSE [l EXCEPT !.high = mid - 1]

\* one iteration of "while low <= high" on the locals l = (low, high, max_found)
FindMaxIteration(l, num_cells, cell_volume, daily_equipment_capacity, phase_params, weekend_params, simulation_days) ==
    LET mid == (l.low + l.high) \div 2
        idle_days == simulate_for_idle_days(num_cells, cell_volume, mid,
                         daily_equipment_capacity, phase_params,
                         weekend_params, simulation_days).idle_days
    IN  IF idle_days = 0
        THEN [l EXCEPT !.max_found = mid, !.low = mid + 1]
        ELSE [l EXCEPT !.high = mid - 1]

RECURSIVE FindMaxLoop(_, _, _, _, _, _, _)
FindMaxLoop(l, num_cells, cell_volume, daily_equipment_capacity, phase_params, weekend_params, simulation_days) ==
    IF l.low <= l.high
    THEN FindMaxLoop(FindMaxIteration(l, num_cells, cell_volume,
                         daily_equipment_capacity, phase_params,
                         weekend_params, simulation_days),
                     num_cells, cell_volume, daily_equipment_capacity,
                     phase_params, weekend_params, simulation_days)
    ELSE l.max_found

find_max_daily_volume(num_cells, cell_volume, daily_equipment_capacity, phase_params, weekend_params, simulation_days) ==
    FindMaxLoop([low |-> SearchLow, high |-> SearchHigh, max_found |-> 0],
                num_cells, cell_volume, daily_equipment_capacity,
                phase_params, weekend_params, simulation_days)


(***************************************************************************)
(* One whole call of simulate_for_idle_days, for comparing calls that      *)
(* differ in one argument.                                                 *)
(*   params  the arguments                                                 *)
(*   st      the locals before the loop, then the tuple returned           *)
(***************************************************************************)
CallMaxCells == 2
CallMaxCapacity == 5
CallMaxDays == 10

CallParams ==
    [ num_cells : 1 .. CallMaxCells,
      cell_volume : CellVolumes,
      daily_volume_cy : DailyVolumes,
      daily_equipment_capacity : 1 .. CallMaxCapacity,
      phase_params : PhaseDurations,
      weekend_params : WeekendPolicies,
      start_date : {ProbeStartDate},
      simulation_days : 1 .. CallMaxDays ]

CallInit ==
    /\ sim = "probe"
    /\ params \in CallParams
    /\ pc = "call"
    /\ st = ProbeInit(params)

SimulateForIdleDaysCall ==
    /\ sim = "probe" /\ pc = "call"
    /\ st' = simulate_for_idle_days(params.num_cells, params.cell_volume,
                 params.daily_volume_cy, params.daily_equipment_capacity,
                 params.phase_params, params.weekend_params,
                 params.simulation_days)
    /\ pc' = "return"
    /\ UNCHANGED <<sim, params>>

CallNext == SimulateForIdleDaysCall

CallSpec == CallInit /\ [][CallNext]_vars

\* the idle days of the call with another daily volume, another cell count
IdleDaysAtVolume(v) ==
    simulate_for_idle_days(params.num_cells, params.cell_volume, v,
        params.daily_equipment_capacity, params.phase_params,
        params.weekend_params, params.simulation_days).idle_days
IdleDaysWithCells(n) ==
    simulate_for_idle_days(n, params.cell_volume, params.daily_volume_cy,
        params.daily_equipment_capacity, params.phase_params,
        params.weekend_params, params.simulation_days).idle_days

(***************************************************************************)
(* C17  Volume monotonicity, as claimed: for a fixed configuration and     *)
(* horizon the idle_days returned by simulate_for_idle_days does not       *)
(* decrease when daily_volume_cy grows.  The probe does not have this      *)
(* property: one cell of 3 with capacity 5, rip 1, treat 2, dry 1, loading *)
(* on Saturdays and drying on Sundays, over 10 days, has 6 idle days at    *)
(* volume 1 and 5 idle days at volume 2.                                   *)
(***************************************************************************)
VolumeMonotonicity ==
    pc = "return" =>
        \A v \in DailyVolumes :
            v > params.daily_volume_cy => st.idle_days <= IdleDaysAtVolume(v)


(***************************************************************************)
(* C18  Cell-count monotonicity.  For fixed cell size, daily volume,       *)
(* equipment capacity, durations, weekend policy and horizon: if           *)
(* simulate_for_idle_days returns idle_days = 0 with n cells, it returns   *)
(* idle_days = 0 with every larger cell count.                             *)
(***************************************************************************)
CellCountMonotonicity ==
    (pc = "return" /\ st.idle_days = 0) =>
        \A n \in params.num_cells + 1 .. CallMaxCells + 2 :
            IdleDaysWithCells(n) = 0

\* a call over more than a week returned zero idle days with two cells
\* where one cell has idle days
CellCountMonotonicityWitness ==
    /\ pc = "return"
    /\ st.idle_days = 0
    /\ params.num_cells = 2
    /\ params.simulation_days > 7
    /\ IdleDaysWithCells(1) > 0


(***************************************************************************)
(* Scenario A: the probe called with 4 cells of 900, daily volume 300,     *)
(* equipment capacity 750, rip 1, treat 3, dry 5, weekend work for rip,    *)
(* treat and dry only, over the horizon of the search and over the         *)
(* horizon of find_max_daily_volume.                                       *)
(***************************************************************************)
ScenarioAWeekend ==
    [k \in WeekendKeys |->
        k \in {"rip_saturday", "rip_sunday", "treat_saturday",
               "treat_sunday", "dry_saturday", "dry_sunday"}]

ScenarioAPhases == [rip_days |-> 1, treat_days |-> 3, dry_days |-> 5]

ScenarioAParams ==
    {[ num_cells |-> 4,
       cell_volume |-> 900,
       daily_volume_cy |-> 300,
       daily_equipment_capacity |-> 750,
       phase_params |-> ScenarioAPhases,
       weekend_params |-> ScenarioAWeekend,
       start_date |-> ProbeStartDate,
       simulation_days |-> days ] : days \in {SearchHorizon, MaxVolumeHorizon}}

ScenarioAInit ==
    /\ sim = "probe"
    /\ params \in ScenarioAParams
    /\ pc = "transitions"
    /\ st = ProbeInit(params)

ProbeNext ==
    \/ ProbeProcessPendingStep
    \/ ProbeArriveStep
    \/ ProbeLoadStep
    \/ ProbeUnloadStep
    \/ ProbeAdvanceStep

ScenarioASpec == ScenarioAInit /\ [][ProbeNext]_vars

(***************************************************************************)
(* C15  Scenario A.  simulate_for_idle_days with the arguments of          *)
(* Scenario A returns idle_days = 0 over 90 days and over 120 days: the    *)
(* idle counter is 0 when the loop ends, and it is 0 all along.            *)
(***************************************************************************)
ScenarioA ==
    /\ st.idle_days = 0
    /\ (pc = "transitions" /\ ~InLoop) =>
          /\ st.day = params.simulation_days
          /\ simulate_for_idle_days(params.num_cells, params.cell_volume,
                 params.daily_volume_cy, params.daily_equipment_capacity,
                 params.phase_params, params.weekend_params,
                 params.simulation_days).idle_days = 0

\* the loop over 120 days has ended, every cell has been loaded more than
\* five times, and no day was idle
ScenarioAWitness ==
    /\ pc = "transitions"
    /\ st.day = MaxVolumeHorizon
    /\ st.idle_days = 0
    /\ st.next_flip_num > 5 * params.num_cells


(***************************************************************************)
(* optimize_cell_configuration.  Its locals are the record                 *)
(*   results      the rows appended so far                                 *)
(*   cell_volume  the variable of the outer loop                           *)
(*   num_cells    the variable of the inner loop                           *)
(*   cycle_info   the cycle time of the cell size under test               *)
(*   now          the day datetime.now() returns during the call           *)
(* and a is the record of its arguments.                                   *)
(***************************************************************************)
OptimizeLocals(a, now) ==
    [ results |-> << >>,
      cell_volume |-> a.min_cell_volume,
      num_cells |-> NoCell,
      cycle_info |-> NoTransition,
      now |-> now ]

\* range(min_cell_volume, max_cell_volume + 1, step_size) is exhausted
SizesExhausted(l, a) == l.cell_volume > a.max_cell_volume

\* load_days = cell_volume / daily_volume_cy with daily_volume_cy = 0, and
\* math.ceil(cell_volume_cy / daily_equipment_capacity) with a capacity of
\* 0 in calculate_total_cycle_time: ZeroDivisionError, which nothing catches
LoadDaysUndefined(l, a) == a.daily_volume_cy = 0
UnloadWorkdaysUndefined(l, a) == a.daily_equipment_capacity = 0

\* LoadingTooLong without the limit max_loading_days
LoadingNeverTooLong(l, a) == FALSE

\* load_days = cell_volume / daily_volume_cy; load_days > max_loading_days
LoadingTooLong(l, a) == l.cell_volume > a.max_loading_days * a.daily_volume_cy

\* "continue": the next cell size
SkipSize(l, a) == [l EXCEPT !.cell_volume = @ + a.step_size]

\* Calculate cycle time, and enter "for num_cells in range(2, 13)"
EnterSize(l, a) ==
    [l EXCEPT
      !.cycle_info =
          calculate_total_cycle_time(l.cell_volume, a.daily_volume_cy,
              a.daily_equipment_capacity, a.phase_params, a.weekend_params,
              l.now),
      !.num_cells = 2]

\* the dict appended for (cell_volume, num_cells); buffer_pct is the
\* quotient num / den
ResultRow(l, a) ==
    LET probe == simulate_for_idle_days(l.num_cells, l.cell_volume,
                     a.daily_volume_cy, a.daily_equipment_capacity,
                     a.phase_params, a.weekend_params, SearchHorizon)
        max_daily_volume ==
            find_max_daily_volume(l.num_cells, l.cell_volume,
                a.daily_equipment_capacity, a.phase_params, a.weekend_params,
                MaxVolumeHorizon)
        buffer_cy == IF max_daily_volume >= a.daily_volume_cy
                     THEN max_daily_volume - a.daily_volume_cy
                     ELSE a.daily_volume_cy - max_daily_volume
        buffer_pct == IF max_daily_volume >= a.daily_volume_cy
                      THEN [num |-> buffer_cy * 100, den |-> a.daily_volume_cy]
                      ELSE [num |-> 0 - buffer_cy * 100, den |-> a.daily_volume_cy]
        score == probe.idle_days * 100000 + l.num_cells * 1000 + l.cell_volume
    IN  [ cell_volume_cy |-> l.cell_volume,
          num_cells |-> l.num_cells,
          load_days |-> l.cycle_info.load_calendar_days,
          cycle_days |-> l.cycle_info.total_calendar_days,
          total_capacity_cy |-> l.cell_volume * l.num_cells,
          idle_days |-> probe.idle_days,
          max_waiting_cy |-> probe.max_waiting,
          max_daily_volume |-> max_daily_volume,
          buffer_cy |-> buffer_cy,
          buffer_pct |-> buffer_pct,
          score |-> score,
          cycle_breakdown |-> l.cycle_info ]

\* InnerLoopEnds without the "break" on idle_days == 0
InnerLoopEndsNoBreak(l, row) == l.num_cells >= 12

\* results.append(row), then "break" on idle_days == 0, the next cell count
\* otherwise, the next cell size after 12 cells
InnerLoopEnds(l, row) == row.idle_days = 0 \/ l.num_cells >= 12

\* AppendRow keeping only the rows with idle_days == 0
AppendRowFeasibleOnly(l, a, row) ==
    [l EXCEPT
      !.results = IF row.idle_days = 0 THEN Append(@, row) ELSE @,
      !.num_cells = IF InnerLoopEnds(l, row) THEN @ ELSE @ + 1,
      !.cell_volume = IF InnerLoopEnds(l, row) THEN @ + a.step_size ELSE @]

AppendRow(l, a, row) ==
    [l EXCEPT
      !.results = Append(@, row),
      !.num_cells = IF InnerLoopEnds(l, row) THEN @ ELSE @ + 1,
      !.cell_volume = IF InnerLoopEnds(l, row) THEN @ + a.step_size ELSE @]

\* sort_values('score'): rows in ascending score, rows of equal score in
\* the order of insertion
RECURSIVE InsertByScore(_, _)
InsertByScore(sorted, row) ==
    IF sorted = << >> THEN <<row>>
    ELSE IF sorted[Len(sorted)].score <= row.score THEN Append(sorted, row)
    ELSE Append(InsertByScore(SubSeq(sorted, 1, Len(sorted) - 1), row),
                sorted[Len(sorted)])

RECURSIVE SortByScore(_)
SortByScore(rows) ==
    IF rows = << >> THEN << >>
    ELSE InsertByScore(SortByScore(SubSeq(rows, 1, Len(rows) - 1)),
                       rows[Len(rows)])

SortResults(l, a) == [l EXCEPT !.results = SortByScore(@)]

\* the whole call from the locals l at the place "at"; the value returned
\* is "None", the sorted rows, or the exception raised
RECURSIVE OptimizeFrom(_, _, _)
OptimizeFrom(l, at, a) ==
    IF at = "sizes"
    THEN IF SizesExhausted(l, a) THEN OptimizeFrom(l, "sort", a)
         ELSE IF LoadDaysUndefined(l, a) THEN "ZeroDivisionError"
         ELSE IF LoadingTooLong(l, a) THEN OptimizeFrom(SkipSize(l, a), "sizes", a)
         ELSE IF UnloadWorkdaysUndefined(l, a) THEN "ZeroDivisionError"
         ELSE OptimizeFrom(EnterSize(l, a), "cells", a)
    ELSE IF at = "cells"
    THEN LET row == ResultRow(l, a)
         IN  OptimizeFrom(AppendRow(l, a, row),
                          IF InnerLoopEnds(l, row) THEN "sizes" ELSE "cells", a)
    ELSE IF l.results = << >> THEN NoTransition
    ELSE SortResults(l, a).results

optimize_cell_configuration(a, now) ==
    OptimizeFrom(OptimizeLocals(a, now), "sizes", a)

(***************************************************************************)
(* One call of optimize_cell_configuration as a state machine: one action  *)
(* per turn of its loops.                                                  *)
(*   params  the arguments a                                               *)
(*   st      the locals                                                    *)
(*   pc      "sizes": at the head of the outer loop, "cells": at the head  *)
(*           of the inner loop, "sort": after the loops, then the return   *)
(* The inputs: the planning case of Scenario A, two cell sizes, with and   *)
(* without a tight limit on the loading time, run on any day of the week.  *)
(***************************************************************************)
WallClockDays == 0 .. 6

OptimizeParams ==
    [ daily_volume_cy : {300},
      daily_equipment_capacity : {750},
      phase_params : {ScenarioAPhases},
      weekend_params : {ScenarioAWeekend},
      max_loading_days : {5, 14},
      min_cell_volume : {900, 1950},
      max_cell_volume : {1950},
      step_size : {1050} ]

OptimizeInit ==
    /\ sim = "optimize"
    /\ params \in OptimizeParams
    /\ pc = "sizes"
    /\ \E now \in WallClockDays : st = OptimizeLocals(params, now)

OptimizeLoopEnd ==
    /\ sim = "optimize" /\ pc = "sizes"
    /\ SizesExhausted(st, params)
    /\ pc' = "sort"
    /\ UNCHANGED <<sim, params, st>>

OptimizeSkipSize ==
    /\ sim = "optimize" /\ pc = "sizes"
    /\ ~SizesExhausted(st, params)
    /\ ~LoadDaysUndefined(st, params)
    /\ LoadingTooLong(st, params)
    /\ st' = SkipSize(st, params)
    /\ UNCHANGED <<sim, params, pc>>

OptimizeEnterSize ==
    /\ sim = "optimize" /\ pc = "sizes"
    /\ ~SizesExhausted(st, params)
    /\ ~LoadDaysUndefined(st, params)
    /\ ~LoadingTooLong(st, params)
    /\ ~UnloadWorkdaysUndefined(st, params)
    /\ st' = EnterSize(st, params)
    /\ pc' = "cells"
    /\ UNCHANGED <<sim, params>>

OptimizeTestCells ==
    /\ sim = "optimize" /\ pc = "cells"
    /\ LET row == ResultRow(st, params)
       IN  /\ st' = AppendRow(st, params, row)
           /\ pc' = IF InnerLoopEnds(st, row) THEN "sizes" ELSE "cells"
    /\ UNCHANGED <<sim, params>>

OptimizeReturnNone ==
    /\ sim = "optimize" /\ pc = "sort"
    /\ st.results = << >>
    /\ pc' = "return None"
    /\ UNCHANGED <<sim, params, st>>

OptimizeSort ==
    /\ sim = "optimize" /\ pc = "sort"
    /\ st.results # << >>
    /\ st' = SortResults(st, params)
    /\ pc' = "return results_df"
    /\ UNCHANGED <<sim, params>>

OptimizeNext ==
    \/ OptimizeLoopEnd
    \/ OptimizeSkipSize
    \/ OptimizeEnterSize
    \/ OptimizeTestCells
    \/ OptimizeReturnNone
    \/ OptimizeSort

OptimizeSpec == OptimizeInit /\ [][OptimizeNext]_vars

\* the rows returned, in the state in which the call returns them
Returned == pc = "return results_df"
Rows == 1 .. Len(st.results)


(***************************************************************************)
(* C14  Determinism, as claimed: the results of the core are functions of  *)
(* the passed parameters only, whatever the wall-clock date of the run.    *)
(* The probe and the schedule are such functions (the operators            *)
(* simulate_for_idle_days, ScheduleDay have no other argument).  For the   *)
(* search the claim says: the rows a call returns are the rows the call    *)
(* with the same arguments returns on any other day of the week.  They     *)
(* are not: load_days, cycle_days and cycle_breakdown come from            *)
(* calculate_total_cycle_time, which counts calendar days from             *)
(* datetime.now().                                                         *)
(***************************************************************************)
Determinism ==
    Returned =>
        \A now \in WallClockDays :
            optimize_cell_configuration(params, now) = st.results

(***************************************************************************)
(* C19  as claimed: every row of the ranked result has idle_days = 0.      *)
(***************************************************************************)
OnlyFeasibleRows ==
    Returned => \A i \in Rows : st.results[i].idle_days = 0

(***************************************************************************)
(* C19  as the code has it: the search discards nothing.  The ranked       *)
(* result keeps every candidate tested, with the probe's idle_days at the  *)
(* planned daily volume: for a row with more than 2 cells the result also  *)
(* holds the rows of the same cell size with every smaller cell count      *)
(* from 2 on, all of them with idle_days > 0.  The rows with idle_days = 0 *)
(* precede the rows with idle_days > 0.                                    *)
(***************************************************************************)
InfeasibleRowsKept ==
    Returned =>
        /\ \A i \in Rows :
              LET row == st.results[i]
              IN  /\ row.idle_days =
                        simulate_for_idle_days(row.num_cells, row.cell_volume_cy,
                            params.daily_volume_cy, params.daily_equipment_capacity,
                            params.phase_params, params.weekend_params,
                            SearchHorizon).idle_days
                  /\ \A n \in 2 .. row.num_cells - 1 :
                        \E j \in Rows :
                            /\ st.results[j].cell_volume_cy = row.cell_volume_cy
                            /\ st.results[j].num_cells = n
                            /\ st.results[j].idle_days > 0
        /\ \A i, j \in Rows :
              (st.results[i].idle_days = 0 /\ st.results[j].idle_days > 0) => i < j

\* a ranking is returned that holds a row without idle days and, behind
\* it, a row of the same cell size with idle days
InfeasibleRowsKeptWitness ==
    /\ Returned
    /\ \E i, j \in Rows :
          /\ i < j
          /\ st.results[i].idle_days = 0
          /\ st.results[j].idle_days > 0
          /\ st.results[i].cell_volume_cy = st.results[j].cell_volume_cy

(***************************************************************************)
(* C20  Lexicographic ranking, as claimed: the result is in ascending      *)
(* order of score, a row with fewer idle days precedes every row with      *)
(* more, and among rows with equal idle days a row with fewer cells        *)
(* precedes every row with more cells.  The last part fails when two cell  *)
(* sizes differ by more than 1000: 4 cells of 900 (score 4900) come before *)
(* 3 cells of 1950 (score 4950).                                           *)
(***************************************************************************)
LexicographicRanking ==
    Returned =>
        \A i, j \in Rows :
            LET r == st.results[i]
                q == st.results[j]
            IN  /\ i < j => r.score <= q.score
                /\ r.score = r.idle_days * 100000 + r.num_cells * 1000
                               + r.cell_volume_cy
                /\ r.idle_days < q.idle_days => i < j
                /\ (r.idle_days = q.idle_days /\ r.num_cells < q.num_cells) =>
                      i < j


(***************************************************************************)
(* One call of find_max_daily_volume as a state machine: one action per    *)
(* turn of its while loop.                                                 *)
(*   params  the arguments                                                 *)
(*   st      the locals low, high, max_found, and probes: the number of    *)
(*           calls of simulate_for_idle_days made so far                   *)
(* The inputs: two and three large cells at a low equipment capacity, and  *)
(* two small cells with a capacity that no volume of the range leaves      *)
(* anything of.                                                            *)
(***************************************************************************)
FindMaxParams ==
    [ num_cells : {2, 3},
      cell_volume : {3500, 3550, 3600},
      daily_equipment_capacity : {325},
      phase_params : {ScenarioAPhases,
                      [rip_days |-> 2, treat_days |-> 3, dry_days |-> 5]},
      weekend_params : {ScenarioAWeekend},
      simulation_days : {MaxVolumeHorizon} ]
    \cup {[ num_cells |-> 2, cell_volume |-> 100, daily_equipment_capacity |-> 50,
            phase_params |-> ScenarioAPhases, weekend_params |-> ScenarioAWeekend,
            simulation_days |-> MaxVolumeHorizon ]}

FindMaxInit ==
    /\ sim = "find_max"
    /\ params \in FindMaxParams
    /\ pc = "while"
    /\ st = [low |-> SearchLow, high |-> SearchHigh, max_found |-> 0, probes |-> 0]

FindMaxProbe ==
    /\ sim = "find_max" /\ pc = "while"
    /\ st.low <= st.high
    /\ st' = [FindMaxIteration(st, params.num_cells, params.cell_volume,
                  params.daily_equipment_capacity, params.phase_params,
                  params.weekend_params, params.simulation_days)
                EXCEPT !.probes = @ + 1]
    /\ UNCHANGED <<sim, params, pc>>

FindMaxReturn ==
    /\ sim = "find_max" /\ pc = "while"
    /\ st.low > st.high
    /\ pc' = "return"
    /\ UNCHANGED <<sim, params, st>>

FindMaxNext == FindMaxProbe \/ FindMaxReturn

FindMaxSpec == FindMaxInit /\ [][FindMaxNext]_vars

\* the probe of find_max_daily_volume's configuration at volume v has no
\* idle days
ZeroIdleAt(v) ==
    simulate_for_idle_days(params.num_cells, params.cell_volume, v,
        params.daily_equipment_capacity, params.phase_params,
        params.weekend_params, params.simulation_days).idle_days = 0

(***************************************************************************)
(* C16  MaxVolumeFinder result, as claimed: find_max_daily_volume returns  *)
(* the largest v in 50..1500 whose 120-day probe has no idle days, so no   *)
(* volume in (v, 1500] has zero idle days, and it returns 0 only when no   *)
(* volume of the range has zero idle days.  It does not: for 2 cells of    *)
(* 3500, capacity 325, rip 2, treat 3, dry 5 it returns 134, and volume    *)
(* 140 has no idle days.                                                   *)
(***************************************************************************)
MaxVolumeFinderResult ==
    pc = "return" =>
        /\ st.max_found # 0 =>
              /\ st.max_found \in SearchLow .. SearchHigh
              /\ ZeroIdleAt(st.max_found)
        /\ \A v \in SearchLow .. SearchHigh :
              v > st.max_found => ~ZeroIdleAt(v)


(***************************************************************************)
(* optimize_cell_configuration on arguments no caller has checked: the     *)
(* function tests none of them, and the limits of the input widgets of     *)
(* main() bind no other caller.  The inputs are the planning case of       *)
(* Scenario A with cell sizes 900 and 1950 and at most 5 loading days,     *)
(* and the cases that differ from it in one respect: no incoming volume,   *)
(* no equipment capacity, a capacity that leaves nothing for unloading,    *)
(* a phase of zero days, size bounds that max_loading_days excludes        *)
(* altogether (also Scenario C: 100..150 in steps of 100), inverted size   *)
(* bounds, and cells of 3000, which take the 10 loading days allowed,      *)
(* with a capacity of 450, which leaves less for unloading than arrives.   *)
(*   pc      as in OptimizeSpec, and "raise ZeroDivisionError"             *)
(***************************************************************************)
PlanningCase ==
    [ daily_volume_cy |-> 300,
      daily_equipment_capacity |-> 750,
      phase_params |-> ScenarioAPhases,
      weekend_params |-> ScenarioAWeekend,
      max_loading_days |-> 5,
      min_cell_volume |-> 900,
      max_cell_volume |-> 1950,
      step_size |-> 1050 ]

SearchParams ==
    {PlanningCase}
    \cup {[PlanningCase EXCEPT !.daily_volume_cy = 0]}
    \cup {[PlanningCase EXCEPT !.daily_volume_cy = 0,
                               !.min_cell_volume = 1950, !.max_cell_volume = 900]}
    \cup {[PlanningCase EXCEPT !.daily_equipment_capacity = c] : c \in {0, 300}}
    \cup {[PlanningCase EXCEPT !.phase_params.rip_days = 0]}
    \cup {[PlanningCase EXCEPT !.min_cell_volume = 1950]}
    \cup {[PlanningCase EXCEPT !.min_cell_volume = 1950, !.max_cell_volume = 900]}
    \cup {[PlanningCase EXCEPT !.daily_volume_cy = 10, !.min_cell_volume = 100,
                               !.max_cell_volume = 150, !.step_size = 100]}
    \cup {[PlanningCase EXCEPT !.daily_equipment_capacity = 450,
                               !.max_loading_days = 10,
                               !.min_cell_volume = 3000, !.max_cell_volume = 3000]}

SearchInit ==
    /\ sim = "optimize"
    /\ params \in SearchParams
    /\ pc = "sizes"
    /\ \E now \in WallClockDays : st = OptimizeLocals(params, now)

\* the division of line 247, or the one of line 156 under
\* calculate_total_cycle_time, raises ZeroDivisionError out of the call
OptimizeRaise ==
    /\ sim = "optimize" /\ pc = "sizes"
    /\ ~SizesExhausted(st, params)
    /\ \/ LoadDaysUndefined(st, params)
       \/ /\ ~LoadingTooLong(st, params)
          /\ UnloadWorkdaysUndefined(st, params)
    /\ pc' = "raise ZeroDivisionError"
    /\ UNCHANGED <<sim, params, st>>

SearchNext ==
    \/ OptimizeLoopEnd
    \/ OptimizeSkipSize
    \/ OptimizeEnterSize
    \/ OptimizeTestCells
    \/ OptimizeReturnNone
    \/ OptimizeSort
    \/ OptimizeRaise

SearchSpec == SearchInit /\ [][SearchNext]_vars

\* the rows of one cell size, and the cell sizes of the search range
RowsOfSize(v) == {i \in Rows : st.results[i].cell_volume_cy = v}
SizesInRange ==
    {v \in params.min_cell_volume .. params.max_cell_volume :
        (v - params.min_cell_volume) % params.step_size = 0}


(***************************************************************************)
(* C21  Early stop per cell size: the rows of one cell size have the cell  *)
(* counts 2, 3, ... without a gap, appended in this order, none above 12;  *)
(* a row with idle_days = 0 is the only such row of its size and has the   *)
(* largest cell count of its size, every other row of the size having      *)
(* fewer cells and idle_days > 0; and the testing of a size ends only at   *)
(* a row with idle_days = 0 or at 12 cells.                                *)
(***************************************************************************)
EarlyStop ==
    \A i \in Rows :
        LET row == st.results[i]
            same == RowsOfSize(row.cell_volume_cy)
        IN  /\ row.num_cells \in 2 .. 12
            /\ \A n \in 2 .. row.num_cells - 1 :
                  \E j \in same : /\ st.results[j].num_cells = n
                                  /\ st.results[j].idle_days > 0
            /\ \A j \in same \ {i} :
                  /\ st.results[j].num_cells # row.num_cells
                  /\ row.idle_days = 0 =>
                        /\ st.results[j].num_cells < row.num_cells
                        /\ st.results[j].idle_days > 0
                  /\ (~Returned /\ i < j) =>
                        row.num_cells < st.results[j].num_cells
            /\ (/\ row.idle_days > 0
                /\ row.num_cells < 12
                /\ (pc = "cells" => row.cell_volume_cy # st.cell_volume)) =>
                  \E j \in same : st.results[j].num_cells = row.num_cells + 1

\* a ranking is returned in which the testing of a size stopped at a row
\* without idle days after rows with idle days
EarlyStopWitness ==
    /\ Returned
    /\ \E i \in Rows :
          /\ st.results[i].idle_days = 0
          /\ st.results[i].num_cells > 2
          /\ st.results[i].num_cells < 12

(***************************************************************************)
(* C22  Scenario B, as claimed: with daily_volume_cy = 0 the call ends by  *)
(* the rejection InvalidParameter, before any simulation: it tests no      *)
(* cell count, returns nothing and raises nothing else.  The function      *)
(* checks no argument: the call dies of the ZeroDivisionError of           *)
(* "cell_volume / daily_volume_cy" at the first cell size, and returns     *)
(* None, the value of the search without viable configuration, when the    *)
(* range of sizes is empty.                                                *)
(***************************************************************************)
ScenarioB ==
    params.daily_volume_cy = 0 => pc \in {"sizes", "raise InvalidParameter"}

(***************************************************************************)
(* C23  Scenario C: when max_loading_days excludes every cell size of the  *)
(* search range, the call runs no simulation (it never enters the loop     *)
(* over the cell counts and appends no row) and ends by returning None;    *)
(* a ranking that is returned is never empty, and None is returned only    *)
(* when no row was appended.                                               *)
(***************************************************************************)
AllSizesExcluded ==
    /\ params.daily_volume_cy > 0
    /\ SizesInRange # {}
    /\ \A v \in SizesInRange : v > params.max_loading_days * params.daily_volume_cy

NoViableConfiguration ==
    /\ AllSizesExcluded =>
          /\ pc \in {"sizes", "sort", "return None"}
          /\ st.results = << >>
          /\ st.num_cells = NoCell
          /\ st.cycle_info = NoTransition
    /\ pc = "sort" => (st.results = << >> <=> ENABLED OptimizeReturnNone)
    /\ Returned => st.results # << >>
    /\ pc = "return None" => st.results = << >>

\* the search over 100..150 in steps of 100 has returned None
NoViableConfigurationWitness ==
    /\ AllSizesExcluded
    /\ params.min_cell_volume = 100 /\ params.max_cell_volume = 150
    /\ pc = "return None"

(***************************************************************************)
(* C24  InvalidParameter rejection, as claimed: with an equipment capacity *)
(* or a phase duration that is not positive, or with min_cell_volume >     *)
(* max_cell_volume, the call ends by the rejection InvalidParameter before *)
(* any simulation, which is not the outcome of a search without viable     *)
(* configuration.  The function checks no argument: inverted bounds give   *)
(* an empty range of sizes and the return value None, the very outcome of  *)
(* Scenario C, and with rip_days = 0 the simulations run and a ranking is  *)
(* returned.                                                               *)
(***************************************************************************)
InvalidParameterRejection ==
    (\/ params.daily_equipment_capacity <= 0
     \/ params.phase_params.rip_days <= 0
     \/ params.phase_params.treat_days <= 0
     \/ params.phase_params.dry_days <= 0
     \/ params.min_cell_volume > params.max_cell_volume)
        => pc \in {"sizes", "raise InvalidParameter"}


(***************************************************************************)
(* C25  Cycle time, as claimed: when cell 1, the first cell loaded and the *)
(* first unloaded, is Empty again for the first time, the calendar days    *)
(* from its first loading day up to this day are the total_calendar_days   *)
(* (the cycle_days of the search) that calculate_total_cycle_time gives    *)
(* for the same parameters, even with the clock at the weekday of the      *)
(* first loading day.  They are not: calculate_total_cycle_time unloads    *)
(* at the full equipment capacity and sums phases that each start on the   *)
(* day of the clock, while the simulator unloads at capacity minus daily   *)
(* volume and runs the phases one after the other across the weekends.     *)
(***************************************************************************)
LoadDays(cell_num) ==
    {d \in 1 .. Len(st.schedule) : st.schedule[d].Cell_Phase[cell_num].label = "Load"}
UnloadDays(cell_num) ==
    {d \in 1 .. Len(st.schedule) : st.schedule[d].Cell_Phase[cell_num].label = "Unload"}

\* cell 1 has been made Empty this morning, at the end of its first cycle
FirstCycleEnds ==
    /\ sim = "schedule" /\ pc = "arrive"
    /\ st.cells[1].phase = "Empty"
    /\ Len(st.schedule) \in UnloadDays(1)
    /\ \A l \in LoadDays(1), u \in UnloadDays(1) : l < u

CycleTime ==
    FirstCycleEnds =>
        LET first == MinOfSet(LoadDays(1))
            simulated == Len(st.schedule) + 1 - first
            now == Weekday(st.schedule[first].Date)
        IN  calculate_total_cycle_time(params.cell_volume, params.daily_volume_cy,
                params.daily_equipment_capacity, params.phase_params,
                params.weekend_params, now).total_calendar_days = simulated


(***************************************************************************)
(* The probe over the horizon of the search and over longer horizons, for  *)
(* 5 cells of 3000 at a daily volume of 300, with an equipment capacity    *)
(* that unloads faster than the soil arrives (750) and one that unloads    *)
(* slower (450).                                                           *)
(***************************************************************************)
LongHorizon == 100

HorizonParams ==
    [ num_cells : {5},
      cell_volume : {3000},
      daily_volume_cy : {300},
      daily_equipment_capacity : {450, 750},
      phase_params : {ScenarioAPhases},
      weekend_params : {ScenarioAWeekend},
      start_date : {ProbeStartDate},
      simulation_days : SearchHorizon .. LongHorizon ]

HorizonInit ==
    /\ sim = "probe"
    /\ params \in HorizonParams
    /\ pc = "transitions"
    /\ st = ProbeInit(params)

HorizonSpec == HorizonInit /\ [][ProbeNext]_vars

(***************************************************************************)
(* C26  Sustained operation, as claimed: when the probe over 90 days       *)
(* returns idle_days = 0, the probe of the same configuration over a       *)
(* longer horizon returns idle_days = 0 too.  It does not: with capacity   *)
(* 450 the cells are unloaded at 150 a day and loaded at 300 a day; 5      *)
(* cells of 3000 absorb the difference for 90 days, and the probe over     *)
(* 100 days counts 2 idle days.                                            *)
(***************************************************************************)
SustainedOperation ==
    (/\ sim = "probe" /\ pc = "transitions" /\ ~InLoop
     /\ simulate_for_idle_days(params.num_cells, params.cell_volume,
            params.daily_volume_cy, params.daily_equipment_capacity,
            params.phase_params, params.weekend_params,
            SearchHorizon).idle_days = 0)
        => st.idle_days = 0


(***************************************************************************)
(* C27  Step order within a day, as claimed: after the pending transitions *)
(* and the arrival the unloading block runs, then the loading block, then  *)
(* the advancement of the treatment phases.                                *)
(***************************************************************************)
UnloadBeforeLoad ==
    [][/\ pc = "arrive" => pc' = "unload"
       /\ pc = "unload" => pc' = "load"
       /\ pc = "load" => pc' = "advance"]_vars

\* the loading block and the unloading block, run from s in either order,
\* end in the same state
LoadUnloadCommute(s) ==
    IF sim = "probe"
    THEN ProbeUnload(ProbeLoad(s, params), params)
            = ProbeLoad(ProbeUnload(s, params), params)
    ELSE ScheduleUnload(ScheduleLoad(s, params), params)
            = ScheduleLoad(ScheduleUnload(s, params), params)

(***************************************************************************)
(* C27  as the code has it: in both simulators the blocks of a day run in  *)
(* the order pending transitions, arrival, LOADING, UNLOADING, treatment   *)
(* phases (then the day record of the schedule).  Fill grows only in the   *)
(* loading block and shrinks only in the unloading block, which follows    *)
(* it; the counters of Rip, Treat and Dry grow only in the last block.     *)
(* The order of loading and unloading makes no difference to the state     *)
(* after both: every transition is staged for the next morning, so the     *)
(* two blocks touch different cells.                                       *)
(***************************************************************************)
LoadBeforeUnload ==
    [][/\ pc = "transitions" => pc' = "arrive"
       /\ pc = "arrive" => pc' = "load"
       /\ pc = "load" => pc' = "unload" /\ LoadUnloadCommute(st)
       /\ pc = "unload" => pc' = "advance"
       /\ pc = "advance" => pc' = IF sim = "probe" THEN "transitions" ELSE "record"
       /\ \A c \in Cells :
             /\ st'.cells[c].soil_volume > st.cells[c].soil_volume => pc = "load"
             /\ st'.cells[c].soil_volume < st.cells[c].soil_volume => pc = "unload"
             /\ st'.cells[c].phase_workdays_completed
                   > st.cells[c].phase_workdays_completed => pc = "advance"]_vars

\* a day of the schedule on which soil was loaded, soil was unloaded and a
\* third cell was advanced in its treatment
LoadBeforeUnloadWitness ==
    /\ sim = "schedule" /\ pc = "record"
    /\ st.daily_soil_in > 0
    /\ st.daily_soil_out > 0
    /\ \E c \in Cells : /\ st.cells[c].phase \in TreatmentPhases
                        /\ st.cells[c].phase_workdays_completed > 0


\* the active loading cell has become full in the step from st to st', with
\* part of the day's load rate unused, soil left waiting and a cell Empty
LoaderFilledEarly ==
    /\ pc = "load"
    /\ WorkDay(st.current_date, "load")
    /\ st'.active_loading_cell # NoCell
    /\ LET loader == st'.active_loading_cell
           moved == st'.cells[loader].soil_volume - st.cells[loader].soil_volume
       IN  /\ st.cells[loader].soil_volume < params.cell_volume
           /\ st'.cells[loader].soil_volume = params.cell_volume
           /\ moved < params.daily_volume_cy
    /\ st'.soil_waiting > 0
    /\ \E c \in Cells : st'.cells[c].phase = "Empty"

(***************************************************************************)
(* C28  Same-day overflow loading, as claimed: when the active loading     *)
(* cell becomes full on a load work day while backlog and load rate        *)
(* remain, the next Empty cell is made Loading and receives soil in the    *)
(* same loading block.                                                     *)
(***************************************************************************)
SameDayOverflow ==
    [][LoaderFilledEarly =>
          \E c \in Cells :
              /\ c # st'.active_loading_cell
              /\ st'.cells[c].phase = "Loading"
              /\ st'.cells[c].soil_volume > st.cells[c].soil_volume]_vars

(***************************************************************************)
(* C28  as the code has it: one cell is loaded per day.  When the active   *)
(* loading cell becomes full while backlog and load rate remain, it stays  *)
(* the active loading cell with 'Rip' staged, no other cell changes, and   *)
(* the rest of the soil stays in the backlog.  A cell leaves Empty only in *)
(* the loading block of a load work day on which no cell is the active     *)
(* loading cell, so the next Empty cell is taken on a later day.           *)
(***************************************************************************)
NoSameDayOverflow ==
    [][/\ LoaderFilledEarly =>
             LET loader == st'.active_loading_cell
             IN  /\ st'.cells[loader].phase = "Loading"
                 /\ st'.cells[loader].pending_transition = "Rip"
                 /\ \A c \in Cells \ {loader} : st'.cells[c] = st.cells[c]
                 /\ st'.soil_waiting =
                       st.soil_waiting - (st'.cells[loader].soil_volume
                                             - st.cells[loader].soil_volume)
       /\ \A c \in Cells :
             (st.cells[c].phase = "Empty" /\ st'.cells[c].phase # "Empty") =>
                 /\ pc = "load"
                 /\ WorkDay(st.current_date, "load")
                 /\ st.active_loading_cell = NoCell
                 /\ st'.active_loading_cell = c
                 /\ st'.cells[c].phase = "Loading"
       /\ (st.active_loading_cell # NoCell
             /\ st'.active_loading_cell # st.active_loading_cell) =>
                 /\ pc = "transitions"
                 /\ st'.active_loading_cell = NoCell]_vars

\* the loading block of the schedule has filled the active loading cell
\* with less than a day's volume; soil is waiting and a cell is Empty
NoSameDayOverflowWitness ==
    /\ sim = "schedule" /\ pc = "unload"
    /\ WorkDay(st.current_date, "load")
    /\ st.active_loading_cell # NoCell
    /\ st.cells[st.active_loading_cell].soil_volume = params.cell_volume
    /\ st.cells[st.active_loading_cell].pending_transition = "Rip"
    /\ st.daily_soil_in > 0
    /\ st.daily_soil_in < params.daily_volume_cy
    /\ st.soil_waiting > 0
    /\ \E c \in Cells : st.cells[c].phase = "Empty"


(***************************************************************************)
(* C29  Equipment ceiling, as claimed: in every day record of the schedule *)
(* SoilIn + SoilOut is at most daily_equipment_capacity, and SoilOut is    *)
(* at least 0 and at most daily_equipment_capacity - daily_volume_cy (at  *)
(* most 0 where this is negative), whatever the parameters.  With a daily  *)
(* volume above the equipment capacity the loading block still moves up to *)
(* daily_volume_cy a day: SoilIn alone exceeds the capacity.               *)
(***************************************************************************)
EquipmentCeiling ==
    sim = "schedule" =>
        \A d \in 1 .. Len(st.schedule) :
            LET record == st.schedule[d]
            IN  /\ record.SoilIn + record.SoilOut <= params.daily_equipment_capacity
                /\ record.SoilOut >= 0
                /\ record.SoilOut <=
                      Max2(params.daily_equipment_capacity - params.daily_volume_cy, 0)


\* the cells that finished emptying the day before the day that starts in
\* st, and the record of a day that ends in the state e
EmptiedYesterday == {c \in Cells : st.cells[c].pending_transition = "Empty"}
RecordOf(e) == e.schedule[Len(e.schedule)]

\* the labels of the record of the day from st to e follow its movement
LabelsFollowMovement(e) ==
    LET record == RecordOf(e)
        label(c) == record.Cell_Phase[c].label
        amount(c) == record.Cell_Phase[c].amount
        change(c) == e.cells[c].soil_volume - st.cells[c].soil_volume
    IN  /\ \A c \in Cells :
              /\ label(c) = "Load" <=> change(c) > 0
              /\ label(c) = "Load" =>
                    /\ amount(c) = change(c)
                    /\ amount(c) = record.SoilIn
              /\ label(c) = "Unload" <=> change(c) < 0
              /\ label(c) = "Unload" =>
                    /\ amount(c) = 0 - change(c)
                    /\ amount(c) = record.SoilOut
              /\ label(c) \in {"Load", "Unload", "Rip", "Treat", "Dry", ""}
        /\ Cardinality({c \in Cells : label(c) = "Load"}) <= 1
        /\ Cardinality({c \in Cells : label(c) = "Unload"}) <= 1
        /\ (\A c \in Cells : label(c) # "Load") => record.SoilIn = 0
        /\ (\A c \in Cells : label(c) # "Unload") => record.SoilOut = 0

(***************************************************************************)
(* C30  Day-record labels match movement, as claimed: the labels follow    *)
(* the movement of the day, and a cell that finished emptying on the       *)
(* previous day is labelled ''.  The last part fails when the loading      *)
(* block takes that cell on the very day it has become Empty: it is        *)
(* labelled 'Load (a)'.                                                    *)
(***************************************************************************)
EmptiedCellUnlabelled ==
    (sim = "schedule" /\ StartOfDay) =>
        LET e == ScheduleDay(st, params)
        IN  /\ LabelsFollowMovement(e)
            /\ \A c \in EmptiedYesterday : RecordOf(e).Cell_Phase[c].label = ""

(***************************************************************************)
(* C30  as the code has it: in every day record a cell is labelled         *)
(* 'Load (a)' exactly when its fill grew by a on that day and             *)
(* 'Unload (a)' exactly when its fill shrank by a, a being the day's       *)
(* SoilIn resp. SoilOut; at most one cell has a Load label and at most one *)
(* an Unload label.  A cell that finished emptying on the previous day is  *)
(* never labelled Unload: it is labelled 'Load (a)' when it is loaded      *)
(* again on this day, and '' otherwise.                                    *)
(***************************************************************************)
EmptiedCellNotUnloading ==
    (sim = "schedule" /\ StartOfDay) =>
        LET e == ScheduleDay(st, params)
            b == ScheduleProcessPending(st, params)
        IN  /\ LabelsFollowMovement(e)
            /\ \A c \in EmptiedYesterday :
                  /\ RecordOf(e).Cell_Phase[c].label \in {"", "Load"}
                  /\ RecordOf(e).Cell_Phase[c].label = "Load" <=>
                        /\ WorkDay(st.current_date, "load")
                        /\ b.active_loading_cell = NoCell
                        /\ st.soil_waiting + params.daily_volume_cy > 0
                        /\ \A a \in Cells \ {c} : b.cells[a].phase = "Empty" => c < a

\* a day starts on which the cell emptied the day before is loaded again
\* while another cell is unloaded
EmptiedCellNotUnloadingWitness ==
    /\ sim = "schedule" /\ StartOfDay
    /\ LET record == RecordOf(ScheduleDay(st, params))
       IN  /\ \E c \in EmptiedYesterday : record.Cell_Phase[c].label = "Load"
           /\ \E c \in Cells : record.Cell_Phase[c].label = "Unload"


(***************************************************************************)
(* C31  Non-work days leave state unchanged.  Over a day of either         *)
(* simulator that is not a load work day the backlog is unchanged, no      *)
(* cell's fill grows and no cell enters Loading (and the probe counts no   *)
(* idle day); over a day that is not an unload work day no cell's fill     *)
(* shrinks and no cell enters Unloading.  After the morning's pending      *)
(* transitions a cell changes on such a day only in its work-day counter   *)
(* and its staged transition, and only when it is in Rip, Treat or Dry     *)
(* and that phase works on the day.                                        *)
(***************************************************************************)
NonWorkDayFrame ==
    StartOfDay =>
        LET e == DayFrom(st)
            b == TransitionsFrom(st)
            load_day == WorkDay(st.current_date, "load")
            unload_day == WorkDay(st.current_date, "unload")
            idle(c) == \/ b.cells[c].phase \notin TreatmentPhases
                       \/ ~WorkDay(st.current_date, KindOf(b.cells[c].phase))
        IN  /\ ~load_day =>
                 /\ e.soil_waiting = st.soil_waiting
                 /\ sim = "probe" => e.idle_days = st.idle_days
                 /\ sim = "schedule" => RecordOf(e).SoilIn = 0
                 /\ e.active_loading_cell = b.active_loading_cell
                 /\ \A c \in Cells :
                       /\ e.cells[c].soil_volume <= st.cells[c].soil_volume
                       /\ e.cells[c].phase = "Loading" => b.cells[c].phase = "Loading"
                       /\ b.cells[c].phase \in {"Empty", "Loading"} =>
                             e.cells[c] = b.cells[c]
            /\ ~unload_day =>
                 /\ sim = "schedule" => RecordOf(e).SoilOut = 0
                 /\ e.active_unloading_cell = b.active_unloading_cell
                 /\ \A c \in Cells :
                       /\ e.cells[c].soil_volume >= st.cells[c].soil_volume
                       /\ e.cells[c].phase = "Unloading" => b.cells[c].phase = "Unloading"
                       /\ b.cells[c].phase \in {"ReadyToUnload", "Unloading"} =>
                             e.cells[c] = b.cells[c]
            /\ \A c \in Cells :
                  /\ idle(c) /\ ~load_day /\ ~unload_day => e.cells[c] = b.cells[c]
                  /\ b.cells[c].phase \in TreatmentPhases =>
                        e.cells[c] =
                            [b.cells[c] EXCEPT
                               !.phase_workdays_completed = e.cells[c].phase_workdays_completed,
                               !.pending_transition = e.cells[c].pending_transition]

\* a day without loading and unloading starts with soil waiting, a cell
\* Empty, a cell ready to unload and a cell in a phase that works today
NonWorkDayFrameWitness ==
    /\ StartOfDay
    /\ ~WorkDay(st.current_date, "load")
    /\ ~WorkDay(st.current_date, "unload")
    /\ st.soil_waiting > 0
    /\ LET b == TransitionsFrom(st)
       IN  /\ \E c \in Cells : b.cells[c].phase = "Empty"
           /\ \E c \in Cells : b.cells[c].phase = "ReadyToUnload"
           /\ \E c \in Cells :
                 /\ b.cells[c].phase \in TreatmentPhases
                 /\ WorkDay(st.current_date, KindOf(b.cells[c].phase))
                 /\ DayFrom(st).cells[c] # b.cells[c]


(***************************************************************************)
(* C32  Backlog never drains.  In both simulators the backlog at the end   *)
(* of a day is at least the backlog at the end of the day before: a load   *)
(* work day adds daily_volume_cy and loads at most that much.  So the      *)
(* probe's max_waiting is the backlog of the last day simulated, and the   *)
(* schedule's SoilWaiting never falls from one record to the next.  When   *)
(* cell_volume is not a multiple of daily_volume_cy, every day on which a  *)
(* cell is filled up leaves the unused part of the day's volume in the     *)
(* backlog for good, with or without idle days: the backlog is at least    *)
(* that part times the number of cells filled up so far.  When it is a     *)
(* multiple and the probe has counted no idle day, the backlog is 0 at     *)
(* the end of every day.                                                   *)
(***************************************************************************)
BacklogNeverDrains ==
    LET rest == params.cell_volume % params.daily_volume_cy
        filled == st.next_flip_num - 1
                    - Cardinality({c \in Cells :
                          /\ st.cells[c].phase = "Loading"
                          /\ st.cells[c].soil_volume < params.cell_volume})
    IN  /\ StartOfDay =>
              LET e == DayFrom(st)
              IN  /\ e.soil_waiting >= st.soil_waiting
                  /\ e.soil_waiting <= st.soil_waiting + params.daily_volume_cy
                  /\ (rest # 0 /\ \E c \in Cells :
                          /\ st.cells[c].pending_transition # "Rip"
                          /\ e.cells[c].pending_transition = "Rip") =>
                        e.soil_waiting >=
                            st.soil_waiting + params.daily_volume_cy - rest
        /\ DayBoundary =>
              /\ st.soil_waiting >= 0
              /\ sim = "probe" => st.max_waiting = st.soil_waiting
              /\ sim = "schedule" =>
                    \A d \in 1 .. Len(st.schedule) :
                        /\ st.schedule[d].SoilWaiting <= st.soil_waiting
                        /\ d > 1 => st.schedule[d - 1].SoilWaiting
                                        <= st.schedule[d].SoilWaiting
              /\ rest # 0 =>
                    st.soil_waiting >= filled * (params.daily_volume_cy - rest)
              /\ (sim = "probe" /\ rest = 0 /\ st.idle_days = 0) =>
                    st.soil_waiting = 0

\* the probe has counted no idle day, two cells have been filled up and
\* the backlog has grown twice
BacklogNeverDrainsWitness ==
    /\ sim = "probe" /\ EndOfDay
    /\ st.idle_days = 0
    /\ params.cell_volume % params.daily_volume_cy # 0
    /\ st.next_flip_num > 2
    /\ st.soil_waiting >=
          2 * (params.daily_volume_cy
                 - (params.cell_volume % params.daily_volume_cy))
    /\ st.max_waiting = st.soil_waiting


(***************************************************************************)
(* C33  Phase/fill consistency.  At the end of every day of either         *)
(* simulator a cell in Empty holds nothing, a cell in Rip, Treat, Dry or   *)
(* ReadyToUnload holds exactly cell_volume, a cell in Loading has 'Rip'    *)
(* staged exactly when it holds cell_volume and nothing staged otherwise,  *)
(* and a cell in Unloading has 'Empty' staged exactly when it holds        *)
(* nothing and nothing staged otherwise.                                   *)
(***************************************************************************)
PhaseFillConsistency ==
    DayBoundary =>
        \A c \in Cells :
            LET cell == st.cells[c]
            IN  /\ cell.phase = "Empty" =>
                      cell.soil_volume = 0 /\ cell.pending_transition = NoTransition
                /\ cell.phase \in TreatmentPhases \cup {"ReadyToUnload"} =>
                      cell.soil_volume = params.cell_volume
                /\ cell.phase = "Loading" =>
                      /\ cell.pending_transition = "Rip"
                            <=> cell.soil_volume = params.cell_volume
                      /\ cell.pending_transition \in {"Rip", NoTransition}
                /\ cell.phase = "Unloading" =>
                      /\ cell.pending_transition = "Empty" <=> cell.soil_volume = 0
                      /\ cell.pending_transition \in {"Empty", NoTransition}

\* a day ends with a cell filled up, a cell emptied, and a cell partly
\* unloaded or in treatment
PhaseFillConsistencyWitness ==
    /\ EndOfDay
    /\ \E c \in Cells : /\ st.cells[c].phase = "Loading"
                        /\ st.cells[c].pending_transition = "Rip"
    /\ \E c \in Cells : /\ st.cells[c].phase = "Unloading"
                        /\ st.cells[c].pending_transition = "Empty"
    /\ \E c \in Cells : st.cells[c].phase \in TreatmentPhases


(***************************************************************************)
(* C34  Idle days mean all cells occupied.  Over a load work day of the    *)
(* probe (daily_volume_cy > 0) the day is counted idle exactly when, once  *)
(* the morning's pending transitions are applied, no cell is Empty or      *)
(* Loading; when a cell is Empty or Loading, a positive volume is loaded   *)
(* into the lowest-numbered such cell or the active loading cell, and the  *)
(* day is not counted.                                                     *)
(***************************************************************************)
IdleMeansOccupied ==
    (sim = "probe" /\ StartOfDay /\ WorkDay(st.current_date, "load")
       /\ params.daily_volume_cy > 0) =>
        LET e == ProbeDay(st, params)
            b == ProbeProcessPending(st, params)
            free == {c \in Cells : b.cells[c].phase \in {"Empty", "Loading"}}
        IN  /\ e.idle_days = st.idle_days + 1 <=> free = {}
            /\ e.idle_days \in {st.idle_days, st.idle_days + 1}
            /\ free # {} =>
                  \E c \in free :
                      /\ e.cells[c].soil_volume > b.cells[c].soil_volume
                      /\ e.active_loading_cell = c
                      /\ b.active_loading_cell \in {c, NoCell}
            /\ free = {} =>
                  \A c \in Cells : e.cells[c].soil_volume <= st.cells[c].soil_volume

\* a load work day starts on which every cell is occupied, after a day
\* that was not idle, with more than one cell
IdleMeansOccupiedWitness ==
    /\ sim = "probe" /\ StartOfDay /\ WorkDay(st.current_date, "load")
    /\ params.num_cells > 1
    /\ st.loaded_today
    /\ \A c \in Cells :
          ProbeProcessPending(st, params).cells[c].phase \notin {"Empty", "Loading"}
    /\ ProbeDay(st, params).idle_days = st.idle_days + 1


(***************************************************************************)
(* The two simulators side by side: both are started on the probe's        *)
(* Monday with the same parameters and advance a whole day in turn, the    *)
(* probe first.  st.probe is the state of simulate_for_idle_days and       *)
(* st.schedule the state of simulate_facility_schedule.                    *)
(***************************************************************************)
PairInit ==
    /\ sim = "pair"
    /\ params \in {p \in Params : p.start_date = ProbeStartDate}
    /\ pc = "probe"
    /\ st = [probe |-> ProbeInit(params), schedule |-> ScheduleInit(params)]

PairProbeDay ==
    /\ sim = "pair" /\ pc = "probe"
    /\ st.probe.day < params.simulation_days
    /\ st' = [st EXCEPT !.probe = ProbeDay(@, params)]
    /\ pc' = "schedule"
    /\ UNCHANGED <<sim, params>>

PairScheduleDay ==
    /\ sim = "pair" /\ pc = "schedule"
    /\ st.schedule.day < params.simulation_days
    /\ st' = [st EXCEPT !.schedule = ScheduleDay(@, params)]
    /\ pc' = "probe"
    /\ UNCHANGED <<sim, params>>

PairNext == PairProbeDay \/ PairScheduleDay

PairSpec == PairInit /\ [][PairNext]_vars

\* the greatest SoilWaiting of the records (0 without records)
MaxSoilWaiting(schedule) ==
    IF schedule = << >> THEN 0
    ELSE CHOOSE w \in {schedule[d].SoilWaiting : d \in DOMAIN schedule} :
             \A d \in DOMAIN schedule : schedule[d].SoilWaiting <= w

\* the records of load work days on which nothing was loaded
IdleRecords(schedule) ==
    {d \in DOMAIN schedule :
        WorkDay(schedule[d].Date, "load") /\ schedule[d].SoilIn = 0}

(***************************************************************************)
(* C35  The two simulators agree.  When simulate_facility_schedule starts  *)
(* on the probe's Monday, then after every number h of days its state is   *)
(* the state of simulate_for_idle_days after h days: cell k of the         *)
(* schedule has the phase, the fill, the staged transition and the         *)
(* work-day counter of cell k - 1 of the probe, the backlogs are equal,    *)
(* the probe's idle_days is the number of records of load work days with   *)
(* SoilIn = 0, and its max_waiting is the greatest SoilWaiting recorded.   *)
(***************************************************************************)
SimulatorsAgree ==
    (sim = "pair" /\ pc = "probe") =>
        /\ st.probe.day = st.schedule.day
        /\ \A c \in DOMAIN st.schedule.cells :
              /\ st.probe.cells[c - 1].phase = st.schedule.cells[c].phase
              /\ st.probe.cells[c - 1].soil_volume
                    = st.schedule.cells[c].soil_volume
              /\ st.probe.cells[c - 1].pending_transition
                    = st.schedule.cells[c].pending_transition
              /\ st.probe.cells[c - 1].phase_workdays_completed
                    = st.schedule.cells[c].phase_workdays_completed
        /\ st.probe.soil_waiting = st.schedule.soil_waiting
        /\ st.probe.current_date = st.schedule.current_date
        /\ st.probe.idle_days
              = Cardinality(IdleRecords(st.schedule.schedule))
        /\ st.probe.max_waiting = MaxSoilWaiting(st.schedule.schedule)

\* both simulators have run the whole horizon, with idle days and loading
\* days, a backlog, unloading, and several cells
SimulatorsAgreeWitness ==
    /\ sim = "pair" /\ pc = "probe"
    /\ st.schedule.day = params.simulation_days
    /\ params.num_cells > 1
    /\ st.schedule.total_soil_unloaded > 0
    /\ st.probe.max_waiting > 0
    /\ st.probe.idle_days > 0
    /\ \E d \in DOMAIN st.schedule.schedule : st.schedule.schedule[d].SoilIn > 0


\* the probe's idle_days for the parameters of the run in progress, over
\* the same horizon
ProbeIdleDays ==
    simulate_for_idle_days(params.num_cells, params.cell_volume,
        params.daily_volume_cy, params.daily_equipment_capacity,
        params.phase_params, params.weekend_params,
        params.simulation_days).idle_days

(***************************************************************************)
(* C36  Feasibility independent of the start weekday, as claimed: when     *)
(* the probe, anchored on its Monday, returns idle_days = 0, the schedule  *)
(* of the same configuration over the same horizon has SoilIn > 0 in the   *)
(* record of every load work day, whatever the weekday of start_date.      *)
(***************************************************************************)
FeasibleFromAnyWeekday ==
    (/\ sim = "schedule" /\ pc = "transitions" /\ ~InLoop
     /\ ProbeIdleDays = 0)
        => \A d \in DOMAIN st.schedule :
              WorkDay(st.schedule[d].Date, "load") => st.schedule[d].SoilIn > 0


(***************************************************************************)
(* C37  Binary search postcondition, with no assumption of monotonicity.   *)
(* find_max_daily_volume makes at most 11 probes, and the r it returns is  *)
(* either 0, and then the probe at volume 50 has idle days, or a volume    *)
(* in 50..1500 whose probe has no idle days and which is 1500 or is        *)
(* followed by a volume r + 1 whose probe has idle days.                   *)
(***************************************************************************)
BinarySearchPostcondition ==
    sim = "find_max" =>
        /\ st.probes <= 11
        /\ st.low <= st.high => st.probes < 11
        /\ pc = "return" =>
              \/ st.max_found = 0 /\ ~ZeroIdleAt(SearchLow)
              \/ /\ st.max_found \in SearchLow .. SearchHigh
                 /\ ZeroIdleAt(st.max_found)
                 /\ st.max_found = SearchHigh \/ ~ZeroIdleAt(st.max_found + 1)

\* the search has returned a volume inside the range after probing
BinarySearchPostconditionWitness ==
    /\ sim = "find_max" /\ pc = "return"
    /\ st.max_found > SearchLow /\ st.max_found < SearchHigh
    /\ st.probes = 11


(***************************************************************************)
(* C38  Headroom consistency, as claimed: a returned row with no idle      *)
(* days at the planned volume has max_daily_volume >= daily_volume_cy, and *)
(* a row with idle days has max_daily_volume < daily_volume_cy.  It does   *)
(* not hold: planned at 300 a day with capacity 450, 5 cells of 3000 have  *)
(* no idle day in the 90 days of the search's probe, and the row's         *)
(* max_daily_volume, found with probes of 120 days, is 292.                *)
(***************************************************************************)
HeadroomConsistency ==
    (sim = "optimize" /\ Returned) =>
        \A i \in Rows :
            st.results[i].idle_days = 0
                <=> st.results[i].max_daily_volume >= params.daily_volume_cy


\* the soil still to be unloaded before cell c is empty, in state s: its own
\* fill, the fill of the cell being unloaded, and the fill of the cells
\* ready to unload that were loaded before it
UnloadQueue(s, c) ==
    {c} \cup {d \in DOMAIN s.cells :
                \/ s.cells[d].phase = "Unloading"
                \/ /\ s.cells[d].phase = "ReadyToUnload"
                   /\ s.cells[d].flip_num <= s.cells[c].flip_num}
SoilAhead(s, c) == SumVolume(s.cells, UnloadQueue(s, c))

(***************************************************************************)
(* C39  Unloading progress of the probe, day by day; b is the state after  *)
(* the morning's transitions and e the state at the end of the day.        *)
(* With daily_equipment_capacity > daily_volume_cy: for a cell that is     *)
(* ReadyToUnload or Unloading the soil to be unloaded before it is empty   *)
(* shrinks on every unload work day, never grows, the cell leaves these    *)
(* two phases only for Empty, and an Unloading cell with no soil left is   *)
(* Empty the next morning.  Monday to Friday are unload work days, so the  *)
(* cell becomes Empty on an unbounded horizon.                             *)
(* With daily_equipment_capacity <= daily_volume_cy: a cell in Unloading   *)
(* stays in Unloading with its fill and is the only one ever promoted, no  *)
(* cell that has left Empty is Empty again, and a load work day with no    *)
(* cell Empty or Loading is idle.                                          *)
(***************************************************************************)
UnloadingProgress ==
    (sim = "probe" /\ StartOfDay) =>
        LET e == ProbeDay(st, params)
            b == ProbeProcessPending(st, params)
            queued(s) == {c \in Cells :
                             s.cells[c].phase \in {"ReadyToUnload", "Unloading"}}
        IN  IF params.daily_equipment_capacity > params.daily_volume_cy
            THEN \A c \in queued(st) :
                    IF st.cells[c].soil_volume = 0
                    THEN /\ st.cells[c].phase = "Unloading"
                         /\ b.cells[c].phase = "Empty"
                    ELSE /\ c \in queued(e)
                         /\ SoilAhead(e, c) <= SoilAhead(st, c)
                         /\ WorkDay(st.current_date, "unload") =>
                               SoilAhead(e, c) < SoilAhead(st, c)
            ELSE /\ \A c \in Cells :
                       /\ st.cells[c].phase = "Unloading" =>
                             /\ e.cells[c].phase = "Unloading"
                             /\ e.cells[c].soil_volume = st.cells[c].soil_volume
                             /\ e.cells[c].soil_volume > 0
                             /\ e.active_unloading_cell = c
                       /\ e.cells[c].phase = "Unloading" =>
                             \A d \in Cells \ {c} : e.cells[d].phase # "Unloading"
                       /\ st.cells[c].phase # "Empty" =>
                             /\ b.cells[c].phase # "Empty"
                             /\ e.cells[c].phase # "Empty"
                 /\ (\A c \in Cells : st.cells[c].phase \notin {"Empty", "Loading"})
                       => \A c \in Cells :
                             b.cells[c].phase \notin {"Empty", "Loading"}
                 /\ (/\ WorkDay(st.current_date, "load")
                     /\ \A c \in Cells : b.cells[c].phase \notin {"Empty", "Loading"})
                       => /\ e.idle_days = st.idle_days + 1
                          /\ \A c \in Cells :
                                e.cells[c].phase \notin {"Empty", "Loading"}

\* with capacity to spare, a cell waits ReadyToUnload behind the cell being
\* unloaded, and that cell gives up soil on an unload work day
UnloadingProgressWitness ==
    /\ sim = "probe" /\ StartOfDay
    /\ params.daily_equipment_capacity > params.daily_volume_cy
    /\ WorkDay(st.current_date, "unload")
    /\ \E c, d \in Cells :
          /\ st.cells[c].phase = "ReadyToUnload"
          /\ st.cells[d].phase = "Unloading"
          /\ st.cells[d].soil_volume > 0
          /\ ProbeDay(st, params).cells[d].soil_volume < st.cells[d].soil_volume
          /\ ProbeDay(st, params).cells[c].phase = "ReadyToUnload"


(***************************************************************************)
(* C40  Max loading time filter, as claimed: every row returned by         *)
(* optimize_cell_configuration has load_days, the calendar days needed to  *)
(* fill one cell, at most max_loading_days.  It does not hold: the filter  *)
(* compares cell_volume / daily_volume_cy, which counts work days, and at  *)
(* 300 a day with no loading on weekends a cell of 3000 passes a limit of  *)
(* 10 days and is returned with load_days = 12 or 14.                      *)
(***************************************************************************)
LoadingTimeFilter ==
    (sim = "optimize" /\ Returned) =>
        \A i \in Rows : st.results[i].load_days <= params.max_loading_days


====
